---- MODULE Spec2Model ----
(***************************************************************************)
(* The video incident-analysis pipeline of backend/services/AI.py:         *)
(* run_full_ai_analysis drives analyze_video_with_polling_return_data      *)
(* (upload, status poll, two structured generations under one retry loop,  *)
(* media deletion in a finally block), then                                *)
(* extract_frames_with_comprehensive_output (frame sampling, batched       *)
(* detection under a second retry loop, rendering) and                     *)
(* create_comprehensive_analysis.  One run is one sequential process; the  *)
(* remote service, the video file and the events_output.json checkpoint    *)
(* are the environment.  Seconds are held in milliseconds and confidences  *)
(* in hundredths, so every number is an integer; suggested_frame_seconds,  *)
(* which the code rounds to three decimals, is held in tenths of a         *)
(* millisecond.  Products the code computes in doubles are computed as the *)
(* doubles give them.  Messages of exceptions, the address and the         *)
(* timestamp are held as sequences of characters.                          *)
(***************************************************************************)
EXTENDS Integers, Sequences, FiniteSets, TLC

\* ------------------------------------------------------------------------
\* Bounds of the model
\* ------------------------------------------------------------------------
MaxPolls == 2          \* status fetches answered PROCESSING before the remote settles
MaxEvents == 2         \* candidate events in one response
MaxWidth == 4096       \* widest field a format spec may pad to

\* ------------------------------------------------------------------------
\* Program constants
\* ------------------------------------------------------------------------
PrimaryMaxRetries == 3     \* max_retries of analyze_video_with_polling_return_data
DefaultMaxRetries == 3     \* max_retries default of run_full_ai_analysis
DefaultBatchSize == 2      \* batch_size default of run_full_ai_analysis
PrimaryBase == 15          \* (2 ** attempt) * 15
PrimaryUnexpectedBase == 10 \* (2 ** attempt) * 10
BatchBase == 10            \* (2 ** attempt) * 10
BatchUnexpectedBase == 5   \* (2 ** attempt) * 5
BoxScale == 1000           \* box_2d is normalised to 0-1000
PollInterval == 15         \* time.sleep(15) of the status poll

\* ------------------------------------------------------------------------
\* Python values
\* ------------------------------------------------------------------------
None == [py |-> "None"]
\* the characters of a string
Chars(s) == [i \in 1..Len(s) |-> SubSeq(s, i, i)]

Str(s) == [py |-> "str", s |-> s]
Dict(d) == [py |-> "dict", items |-> d]
List(xs) == [py |-> "list", items |-> xs]

\* bool(v) is False
Falsy(v) ==
    \/ v.py = "None"
    \/ v.py = "str" /\ v.s = ""
    \/ v.py = "dict" /\ DOMAIN v.items = {}
    \/ v.py = "list" /\ Len(v.items) = 0

\* ------------------------------------------------------------------------
\* Errors raised by remote calls, and their classification
\* ------------------------------------------------------------------------
\* str(e) is held as the sequence of its characters, which are those of
\* Latin-1 (U+0000 to U+00FF).  The ones str.lower() changes, in code point
\* order, and what each of them becomes
LowerMap ==
    LET upper == Chars("ABCDEFGHIJKLMNOPQRSTUVWXYZÀÁÂÃÄÅÆÇÈÉÊËÌÍÎÏÐÑÒÓÔÕÖØÙÚÛÜÝÞ")
        lower == Chars("abcdefghijklmnopqrstuvwxyzàáâãäåæçèéêëìíîïðñòóôõöøùúûüýþ")
    IN [ c \in {upper[i] : i \in DOMAIN upper} |->
           lower[CHOOSE i \in DOMAIN upper : upper[i] = c] ]

\* str(e).lower()
Lower(msg) ==
    [i \in DOMAIN msg |-> IF msg[i] \in DOMAIN LowerMap THEN LowerMap[msg[i]] ELSE msg[i]]

\* the indicator list of the four handlers (lines 441, 461, 807)
Indicators ==
    { <<"o", "v", "e", "r", "l", "o", "a", "d", "e", "d">>,
      <<"q", "u", "o", "t", "a">>,
      <<"r", "a", "t", "e", " ", "l", "i", "m", "i", "t">>,
      <<"5", "0", "3">>,
      <<"4", "2", "9">>,
      <<"r", "e", "s", "o", "u", "r", "c", "e", " ",
        "e", "x", "h", "a", "u", "s", "t", "e", "d">>,
      <<"u", "n", "a", "v", "a", "i", "l", "a", "b", "l", "e">> }

\* any(indicator in error_str for indicator in [...]) with error_str = str(e).lower()
\* indicator in error_str: the indicator occurs as a run of consecutive characters
IsOverload(e) ==
    LET error_str == Lower(e.msg)
    IN \E ind \in Indicators :
         \E s \in 0..(Len(error_str) - Len(ind)) :
             \A j \in 1..Len(ind) : error_str[s + j] = ind[j]

\* except ClientError catches google.genai.errors.ClientError only
IsClientError(e) == e.type = "ClientError"

BadRequestError ==
    [ type |-> "ClientError",
      msg |->
        <<"4", "0", "0", " ", "I", "N", "V", "A", "L", "I", "D", "_", "A", "R", "G",
          "U", "M", "E", "N", "T">> ]
ConnectionError ==
    [ type |-> "ConnectionError",
      msg |->
        <<"C", "o", "n", "n", "e", "c", "t", "i", "o", "n", " ", "r", "e", "s", "e",
          "t", " ", "b", "y", " ", "p", "e", "e", "r">> ]
JSONDecodeError ==
    [ type |-> "JSONDecodeError",
      msg |->
        <<"E", "x", "p", "e", "c", "t", "i", "n", "g", " ", "v", "a", "l", "u", "e",
          ":", " ", "l", "i", "n", "e", " ", "1", " ", "c", "o", "l", "u", "m", "n",
          " ", "1", " ", "(", "c", "h", "a", "r", " ", "0", ")">> ]
KeyError ==
    [ type |-> "KeyError",
      msg |->
        <<"'", "i", "m", "a", "g", "e", "_", "i", "n", "d", "e", "x", "'">> ]
\* what genai.Client(api_key=api_key) may raise (line 207)
ClientInitErrors ==
    { [ type |-> "ConnectionError",
        msg |->
          <<"n", "e", "t", "w", "o", "r", "k", " ", "i", "s", " ", "u", "n", "r", "e",
            "a", "c", "h", "a", "b", "l", "e">> ] }

\* line 211: Exception(f"Failed to initialize Gemini client: {str(e)}")
InitError(e) ==
    [ type |-> "Exception",
      msg |->
        <<"F", "a", "i", "l", "e", "d", " ", "t", "o", " ", "i", "n", "i", "t", "i",
          "a", "l", "i", "z", "e", " ", "G", "e", "m", "i", "n", "i", " ", "c", "l",
          "i", "e", "n", "t", ":", " ">>
        \o e.msg ]
\* lines 201-203
APIKeyError ==
    [ type |-> "APIKeyError",
      msg |->
        <<"G", "O", "O", "G", "L", "E", "_", "G", "e", "m", "i", "n", "i", "_", "A",
          "P", "I", "_", "K", "E", "Y", " ", "n", "o", "t", " ", "f", "o", "u", "n",
          "d", " ", "i", "n", " ", "e", "n", "v", "i", "r", "o", "n", "m", "e", "n",
          "t", " ", "v", "a", "r", "i", "a", "b", "l", "e", "s", ".", " ", "P", "l",
          "e", "a", "s", "e", " ", "c", "h", "e", "c", "k", " ", "y", "o", "u", "r",
          " ", ".", "e", "n", "v", " ", "f", "i", "l", "e", ".">> ]

\* ------------------------------------------------------------------------
\* prompt.format(address=address, timestamp=timestamp) (line 418).  The prompt is
\* an f-string (lines 353-406) that already holds the address and the timestamp,
\* so format parses both as part of its format string.
\* ------------------------------------------------------------------------
\* the prompt before {address} (lines 353-357)
PromptHead ==
    <<"\n", " ", " ", " ", " ", " ", " ", " ", " ", "A", "l", "l", " ", "d", "e", "s",
      "c", "r", "i", "p", "t", "i", "o", "n", "s", ",", " ", "t", "i", "t", "l", "e",
      "s", ",", " ", "a", "n", "d", " ", "t", "e", "x", "t", " ", "f", "i", "e", "l",
      "d", "s", " ", "m", "u", "s", "t", " ", "b", "e", " ", "i", "n", " ", "E", "n",
      "g", "l", "i", "s", "h", " ", "l", "a", "n", "g", "u", "a", "g", "e", ".", "\n",
      " ", " ", " ", " ", " ", " ", " ", " ", "Y", "o", "u", " ", "a", "r", "e", " ",
      "a", "n", " ", "a", "d", "v", "a", "n", "c", "e", "d", " ", "p", "e", "t", "r",
      "o", "l", "e", "u", "m", " ", "a", "n", "d", " ", "c", "o", "n", "s", "t", "r",
      "u", "c", "t", "i", "o", "n", " ", "s", "i", "t", "e", " ", "s", "a", "f", "e",
      "t", "y", " ", "i", "n", "c", "i", "d", "e", "n", "t", " ", "a", "n", "a", "l",
      "y", "s", "i", "s", " ", "s", "y", "s", "t", "e", "m", ".", "\n", " ", " ", " ",
      " ", " ", " ", " ", " ", "A", "n", "a", "l", "y", "z", "e", " ", "t", "h", "e",
      " ", "u", "p", "l", "o", "a", "d", "e", "d", " ", "v", "i", "d", "e", "o", " ",
      "a", "n", "d", " ", "o", "u", "t", "p", "u", "t", " ", "O", "N", "L", "Y", " ",
      "a", " ", "J", "S", "O", "N", " ", "o", "b", "j", "e", "c", "t", " ", "t", "h",
      "a", "t", " ", "m", "a", "t", "c", "h", "e", "s", " ", "t", "h", "e", " ", "I",
      "n", "c", "i", "d", "e", "n", "t", " ", "s", "c", "h", "e", "m", "a", " ", "b",
      "e", "l", "o", "w", ".", "\n", " ", " ", " ", " ", " ", " ", " ", " ", "T", "h",
      "e", " ", "s", "i", "t", "e", " ", "l", "o", "c", "a", "t", "i", "o", "n", " ",
      "i", "s", ":", " ">>

\* between {address} and {timestamp} (lines 357-358)
PromptMid ==
    <<".", "\n", " ", " ", " ", " ", " ", " ", " ", " ", "T", "h", "e", " ", "t", "i",
      "m", "e", "s", "t", "a", "m", "p", " ", "o", "f", " ", "t", "h", "e", " ", "i",
      "n", "c", "i", "d", "e", "n", "t", " ", "i", "s", ":", " ">>

\* after {timestamp} (lines 358-406)
PromptTail ==
    <<".", "\n", "\n", " ", " ", " ", " ", " ", " ", " ", " ", "G", "e", "n", "e", "r",
      "a", "l", " ", "R", "u", "l", "e", "s", ":", "\n", " ", " ", " ", " ", " ", " ",
      " ", " ", "-", " ", "A", "l", "w", "a", "y", "s", " ", "o", "u", "t", "p", "u",
      "t", " ", "v", "a", "l", "i", "d", " ", "J", "S", "O", "N", ",", " ", "n", "o",
      " ", "e", "x", "t", "r", "a", " ", "t", "e", "x", "t", ".", "\n", " ", " ", " ",
      " ", " ", " ", " ", " ", "-", " ", "c", "a", "t", "e", "g", "o", "r", "y", ":",
      " ", "o", "n", "e", " ", "o", "f", " ", "[", "P", "e", "t", "r", "o", "l", "e",
      "u", "m", " ", "S", "a", "f", "e", "t", "y", ",", " ", "C", "o", "n", "s", "t",
      "r", "u", "c", "t", "i", "o", "n", " ", "S", "a", "f", "e", "t", "y", "]", ".",
      "\n", " ", " ", " ", " ", " ", " ", " ", " ", "-", " ", "s", "i", "t", "e", "_",
      "t", "y", "p", "e", ":", " ", "\"", "p", "e", "t", "r", "o", "l", "e", "u", "m",
      "\"", " ", "o", "r", " ", "\"", "c", "o", "n", "s", "t", "r", "u", "c", "t", "i",
      "o", "n", "\"", " ", "b", "a", "s", "e", "d", " ", "o", "n", " ", "v", "i", "s",
      "u", "a", "l", " ", "e", "v", "i", "d", "e", "n", "c", "e", ".", "\n", " ", " ",
      " ", " ", " ", " ", " ", " ", "-", " ", "t", "i", "t", "l", "e", ":", " ", "m",
      "a", "x", "i", "m", "u", "m", " ", "3", " ", "w", "o", "r", "d", "s", ",", " ",
      "m", "u", "s", "t", " ", "s", "u", "m", "m", "a", "r", "i", "z", "e", " ", "t",
      "h", "e", " ", "s", "a", "f", "e", "t", "y", " ", "i", "s", "s", "u", "e", " ",
      "i", "n", " ", "E", "n", "g", "l", "i", "s", "h", ".", "\n", " ", " ", " ", " ",
      " ", " ", " ", " ", "-", " ", "d", "e", "s", "c", "r", "i", "p", "t", "i", "o",
      "n", ":", " ", "e", "x", "a", "c", "t", "l", "y", " ", "2", " ", "s", "h", "o",
      "r", "t", " ", "s", "e", "n", "t", "e", "n", "c", "e", "s", " ", "s", "u", "m",
      "m", "a", "r", "i", "z", "i", "n", "g", " ", "w", "h", "a", "t", " ", "h", "a",
      "p", "p", "e", "n", "e", "d", " ", "i", "n", " ", "E", "n", "g", "l", "i", "s",
      "h", ".", "\n", " ", " ", " ", " ", " ", " ", " ", " ", "-", " ", "s", "e", "v",
      "e", "r", "i", "t", "y", ":", " ", "Y", "O", "U", " ", "M", "U", "S", "T", " ",
      "D", "E", "C", "I", "D", "E", " ", "[", "L", "o", "w", ",", " ", "M", "e", "d",
      "i", "u", "m", ",", " ", "H", "i", "g", "h", "]", " ", "b", "a", "s", "e", "d",
      " ", "o", "n", ":", "\n", " ", " ", " ", " ", " ", " ", " ", " ", " ", " ", "*",
      " ", "H", "i", "g", "h", ":", " ", "I", "m", "m", "e", "d", "i", "a", "t", "e",
      " ", "d", "a", "n", "g", "e", "r", ",", " ", "f", "i", "r", "e", "/", "e", "x",
      "p", "l", "o", "s", "i", "o", "n", ",", " ", "m", "a", "j", "o", "r", " ", "s",
      "p", "i", "l", "l", ",", " ", "c", "r", "i", "t", "i", "c", "a", "l", " ", "i",
      "n", "j", "u", "r", "y", " ", "r", "i", "s", "k", ",", " ", "s", "t", "r", "u",
      "c", "t", "u", "r", "a", "l", " ", "c", "o", "l", "l", "a", "p", "s", "e", ",",
      " ", "g", "a", "s", " ", "r", "e", "l", "e", "a", "s", "e", "\n", " ", " ", " ",
      " ", " ", " ", " ", " ", " ", " ", "*", " ", "M", "e", "d", "i", "u", "m", ":",
      " ", "P", "o", "t", "e", "n", "t", "i", "a", "l", " ", "i", "n", "j", "u", "r",
      "y", " ", "r", "i", "s", "k", ",", " ", "s", "a", "f", "e", "t", "y", " ", "v",
      "i", "o", "l", "a", "t", "i", "o", "n", "s", ",", " ", "e", "q", "u", "i", "p",
      "m", "e", "n", "t", " ", "d", "a", "m", "a", "g", "e", ",", " ", "m", "o", "d",
      "e", "r", "a", "t", "e", " ", "h", "a", "z", "a", "r", "d", "s", ",", " ", "P",
      "P", "E", " ", "v", "i", "o", "l", "a", "t", "i", "o", "n", "s", "\n", " ", " ",
      " ", " ", " ", " ", " ", " ", " ", " ", "*", " ", "L", "o", "w", ":", " ", "M",
      "i", "n", "o", "r", " ", "i", "s", "s", "u", "e", "s", ",", " ", "p", "r", "o",
      "c", "e", "d", "u", "r", "a", "l", " ", "v", "i", "o", "l", "a", "t", "i", "o",
      "n", "s", ",", " ", "m", "i", "n", "o", "r", " ", "e", "q", "u", "i", "p", "m",
      "e", "n", "t", " ", "d", "e", "f", "e", "c", "t", "s", ",", " ", "m", "i", "n",
      "o", "r", " ", "s", "a", "f", "e", "t", "y", " ", "c", "o", "n", "c", "e", "r",
      "n", "s", "\n", " ", " ", " ", " ", " ", " ", " ", " ", "-", " ", "v", "e", "r",
      "i", "f", "i", "e", "d", ":", " ", "o", "n", "e", " ", "o", "f", " ", "[", "R",
      "e", "a", "l", ",", " ", "F", "a", "l", "s", "e", "]", " ", "-", " ", "a", "s",
      "s", "e", "s", "s", " ", "i", "f", " ", "t", "h", "i", "s", " ", "i", "s", " ",
      "a", " ", "g", "e", "n", "u", "i", "n", "e", " ", "s", "a", "f", "e", "t", "y",
      " ", "i", "n", "c", "i", "d", "e", "n", "t", ".", "\n", " ", " ", " ", " ", " ",
      " ", " ", " ", "-", " ", "A", "l", "l", " ", "t", "e", "x", "t", "u", "a", "l",
      " ", "f", "i", "e", "l", "d", "s", " ", "m", "u", "s", "t", " ", "b", "e", " ",
      "c", "o", "m", "p", "l", "e", "t", "e", ",", " ", "p", "r", "e", "c", "i", "s",
      "e", ",", " ", "a", "n", "d", " ", "c", "o", "n", "s", "i", "s", "t", "e", "n",
      "t", " ", "i", "n", " ", "E", "n", "g", "l", "i", "s", "h", ".", "\n", "\n", " ",
      " ", " ", " ", " ", " ", " ", " ", "C", "o", "m", "m", "o", "n", " ", "S", "a",
      "f", "e", "t", "y", " ", "F", "i", "e", "l", "d", "s", " ", "(", "f", "o", "r",
      " ", "b", "o", "t", "h", " ", "p", "e", "t", "r", "o", "l", "e", "u", "m", " ",
      "a", "n", "d", " ", "c", "o", "n", "s", "t", "r", "u", "c", "t", "i", "o", "n",
      ")", ":", "\n", " ", " ", " ", " ", " ", " ", " ", " ", "-", " ", "s", "i", "t",
      "e", "_", "d", "e", "s", "c", "r", "i", "p", "t", "i", "o", "n", ":", " ", "d",
      "e", "t", "a", "i", "l", "e", "d", " ", "d", "e", "s", "c", "r", "i", "p", "t",
      "i", "o", "n", " ", "o", "f", " ", "t", "h", "e", " ", "e", "x", "a", "c", "t",
      " ", "l", "o", "c", "a", "t", "i", "o", "n", " ", "w", "i", "t", "h", "i", "n",
      " ", "t", "h", "e", " ", "s", "i", "t", "e", " ", "(", "e", ".", "g", ".", ",",
      " ", "\"", "R", "e", "f", "i", "n", "e", "r", "y", " ", "a", "r", "e", "a", " ",
      "n", "e", "a", "r", " ", "T", "a", "n", "k", " ", "#", "5", "\"", " ", "o", "r",
      " ", "\"", "T", "h", "i", "r", "d", " ", "f", "l", "o", "o", "r", " ", "o", "f",
      " ", "c", "o", "n", "s", "t", "r", "u", "c", "t", "i", "o", "n", " ", "s", "i",
      "t", "e", " ", "n", "e", "x", "t", " ", "t", "o", " ", "s", "c", "a", "f", "f",
      "o", "l", "d", "i", "n", "g", "\"", ")", ".", "\n", " ", " ", " ", " ", " ", " ",
      " ", " ", "-", " ", "n", "u", "m", "b", "e", "r", "_", "o", "f", "_", "p", "e",
      "o", "p", "l", "e", ":", " ", "c", "o", "u", "n", "t", " ", "o", "f", " ", "p",
      "e", "o", "p", "l", "e", " ", "v", "i", "s", "i", "b", "l", "e", " ", "i", "n",
      " ", "t", "h", "e", " ", "i", "n", "c", "i", "d", "e", "n", "t", " ", "a", "r",
      "e", "a", ".", "\n", " ", " ", " ", " ", " ", " ", " ", " ", "-", " ", "d", "e",
      "s", "c", "r", "i", "p", "t", "i", "o", "n", "_", "o", "f", "_", "p", "e", "o",
      "p", "l", "e", ":", " ", "i", "n", "c", "l", "u", "d", "e", " ", "v", "i", "s",
      "i", "b", "l", "e", " ", "P", "P", "E", " ", "s", "t", "a", "t", "u", "s", " ",
      "(", "e", ".", "g", ".", ",", " ", "\"", "3", " ", "w", "o", "r", "k", "e", "r",
      "s", ",", " ", "2", " ", "w", "i", "t", "h", "o", "u", "t", " ", "h", "a", "r",
      "d", " ", "h", "a", "t", "s", ",", " ", "1", " ", "w", "i", "t", "h", "o", "u",
      "t", " ", "r", "e", "f", "l", "e", "c", "t", "i", "v", "e", " ", "v", "e", "s",
      "t", "\"", ")", ".", "\n", " ", " ", " ", " ", " ", " ", " ", " ", "-", " ", "d",
      "e", "t", "a", "i", "l", "e", "d", "_", "d", "e", "s", "c", "r", "i", "p", "t",
      "i", "o", "n", "_", "f", "o", "r", "_", "t", "h", "e", "_", "i", "n", "c", "i",
      "d", "e", "n", "t", ":", " ", "f", "u", "l", "l", " ", "d", "e", "t", "a", "i",
      "l", "e", "d", " ", "s", "e", "q", "u", "e", "n", "c", "e", " ", "o", "f", " ",
      "e", "v", "e", "n", "t", "s", " ", "i", "n", " ", "E", "n", "g", "l", "i", "s",
      "h", ".", "\n", " ", " ", " ", " ", " ", " ", " ", " ", "-", " ", "v", "e", "h",
      "i", "c", "l", "e", "s", "_", "m", "a", "c", "h", "i", "n", "e", "s", "_", "i",
      "n", "v", "o", "l", "v", "e", "d", ":", " ", "s", "p", "e", "c", "i", "f", "y",
      " ", "e", "q", "u", "i", "p", "m", "e", "n", "t", " ", "t", "y", "p", "e", " ",
      "(", "e", ".", "g", ".", ",", " ", "\"", "c", "r", "a", "n", "e", ",", " ", "e",
      "x", "c", "a", "v", "a", "t", "o", "r", "\"", " ", "o", "r", " ", "\"", "t", "a",
      "n", "k", "e", "r", " ", "t", "r", "u", "c", "k", ",", " ", "p", "u", "m", "p",
      "\"", ")", ".", "\n", " ", " ", " ", " ", " ", " ", " ", " ", "-", " ", "e", "x",
      "t", "e", "n", "t", "_", "o", "f", "_", "i", "m", "p", "a", "c", "t", ":", " ",
      "s", "c", "a", "l", "e", " ", "o", "f", " ", "d", "a", "m", "a", "g", "e", " ",
      "o", "r", " ", "a", "f", "f", "e", "c", "t", "e", "d", " ", "a", "r", "e", "a",
      ".", "\n", " ", " ", " ", " ", " ", " ", " ", " ", "-", " ", "d", "u", "r", "a",
      "t", "i", "o", "n", ":", " ", "e", "s", "t", "i", "m", "a", "t", "e", "d", " ",
      "t", "i", "m", "e", " ", "o", "f", " ", "i", "n", "c", "i", "d", "e", "n", "t",
      " ", "o", "r", " ", "o", "n", "g", "o", "i", "n", "g", " ", "d", "u", "r", "a",
      "t", "i", "o", "n", ".", "\n", "\n", " ", " ", " ", " ", " ", " ", " ", " ", "P",
      "E", "T", "R", "O", "L", "E", "U", "M", " ", "S", "A", "F", "E", "T", "Y", " ",
      "F", "i", "e", "l", "d", "s", " ", "(", "i", "f", " ", "s", "i", "t", "e", "_",
      "t", "y", "p", "e", " ", "i", "s", " ", "\"", "p", "e", "t", "r", "o", "l", "e",
      "u", "m", "\"", ")", ":", "\n", " ", " ", " ", " ", " ", " ", " ", " ", "-", " ",
      "p", "e", "t", "r", "o", "l", "e", "u", "m", "_", "t", "y", "p", "e", ":", " ",
      "o", "n", "e", " ", "o", "f", " ", "[", "e", "q", "u", "i", "p", "m", "e", "n",
      "t", " ", "d", "a", "m", "a", "g", "e", ",", " ", "s", "p", "i", "l", "l", "/",
      "l", "e", "a", "k", ",", " ", "s", "a", "f", "e", "t", "y", " ", "v", "i", "o",
      "l", "a", "t", "i", "o", "n", ",", " ", "e", "n", "v", "i", "r", "o", "n", "m",
      "e", "n", "t", "a", "l", " ", "h", "a", "z", "a", "r", "d", ",", " ", "P", "P",
      "E", " ", "v", "i", "o", "l", "a", "t", "i", "o", "n", ",", " ", "f", "i", "r",
      "e", "/", "e", "x", "p", "l", "o", "s", "i", "o", "n", ",", " ", "c", "o", "n",
      "f", "i", "n", "e", "d", " ", "s", "p", "a", "c", "e", " ", "i", "n", "c", "i",
      "d", "e", "n", "t", ",", " ", "p", "r", "e", "s", "s", "u", "r", "e", " ", "v",
      "e", "s", "s", "e", "l", " ", "i", "n", "c", "i", "d", "e", "n", "t", ",", " ",
      "g", "a", "s", " ", "r", "e", "l", "e", "a", "s", "e", ",", " ", "c", "h", "e",
      "m", "i", "c", "a", "l", " ", "e", "x", "p", "o", "s", "u", "r", "e", "]", ".",
      "\n", " ", " ", " ", " ", " ", " ", " ", " ", " ", " ", "*", " ", "e", "q", "u",
      "i", "p", "m", "e", "n", "t", " ", "d", "a", "m", "a", "g", "e", " ", "i", "n",
      "c", "l", "u", "d", "e", "s", ":", " ", "o", "i", "l", " ", "r", "i", "g", " ",
      "f", "a", "l", "l", "e", "n", " ", "o", "r", " ", "f", "a", "l", "l", "i", "n",
      "g", ",", " ", "d", "r", "i", "l", "l", "i", "n", "g", " ", "r", "i", "g", " ",
      "c", "o", "l", "l", "a", "p", "s", "e", ",", " ", "p", "e", "t", "r", "o", "l",
      "e", "u", "m", " ", "e", "q", "u", "i", "p", "m", "e", "n", "t", " ", "d", "a",
      "m", "a", "g", "e", "d", " ", "(", "w", "e", "l", "l", "h", "e", "a", "d", ",",
      " ", "d", "r", "i", "l", "l", "i", "n", "g", " ", "e", "q", "u", "i", "p", "m",
      "e", "n", "t", ",", " ", "p", "i", "p", "e", "l", "i", "n", "e", " ", "r", "u",
      "p", "t", "u", "r", "e", ",", " ", "p", "u", "m", "p", " ", "f", "a", "i", "l",
      "u", "r", "e", ",", " ", "c", "o", "m", "p", "r", "e", "s", "s", "o", "r", " ",
      "m", "a", "l", "f", "u", "n", "c", "t", "i", "o", "n", ")", ",", " ", "w", "e",
      "l", "l", " ", "i", "n", "c", "i", "d", "e", "n", "t", "s", " ", "(", "f", "a",
      "l", "l", "i", "n", "g", " ", "i", "n", " ", "w", "e", "l", "l", ",", " ", "w",
      "e", "l", "l", " ", "b", "l", "o", "w", "o", "u", "t", ",", " ", "w", "e", "l",
      "l", " ", "i", "n", "t", "e", "g", "r", "i", "t", "y", " ", "i", "s", "s", "u",
      "e", "s", ")", "\n", " ", " ", " ", " ", " ", " ", " ", " ", "-", " ", "s", "u",
      "b", "s", "t", "a", "n", "c", "e", "_", "i", "n", "v", "o", "l", "v", "e", "d",
      ":", " ", "i", "d", "e", "n", "t", "i", "f", "y", " ", "t", "h", "e", " ", "s",
      "u", "b", "s", "t", "a", "n", "c", "e", " ", "i", "f", " ", "v", "i", "s", "i",
      "b", "l", "e", " ", "(", "e", ".", "g", ".", ",", " ", "\"", "c", "r", "u", "d",
      "e", " ", "o", "i", "l", "\"", ",", " ", "\"", "n", "a", "t", "u", "r", "a", "l",
      " ", "g", "a", "s", "\"", ",", " ", "\"", "c", "h", "e", "m", "i", "c", "a", "l",
      " ", "s", "o", "l", "v", "e", "n", "t", "\"", ")", ".", "\n", " ", " ", " ", " ",
      " ", " ", " ", " ", "-", " ", "e", "q", "u", "i", "p", "m", "e", "n", "t", "_",
      "i", "d", ":", " ", "a", "n", "y", " ", "v", "i", "s", "i", "b", "l", "e", " ",
      "e", "q", "u", "i", "p", "m", "e", "n", "t", " ", "n", "u", "m", "b", "e", "r",
      "s", " ", "o", "r", " ", "i", "d", "e", "n", "t", "i", "f", "i", "e", "r", "s",
      " ", "o", "n", " ", "t", "a", "n", "k", "s", ",", " ", "p", "i", "p", "e", "s",
      ",", " ", "v", "a", "l", "v", "e", "s", ",", " ", "r", "i", "g", "s", ",", " ",
      "d", "r", "i", "l", "l", "i", "n", "g", " ", "e", "q", "u", "i", "p", "m", "e",
      "n", "t", ",", " ", "w", "e", "l", "l", "h", "e", "a", "d", "s", ".", "\n", " ",
      " ", " ", " ", " ", " ", " ", " ", "-", " ", "s", "p", "i", "l", "l", "_", "v",
      "o", "l", "u", "m", "e", ":", " ", "e", "s", "t", "i", "m", "a", "t", "e", "d",
      " ", "v", "o", "l", "u", "m", "e", " ", "i", "f", " ", "a", "s", "s", "e", "s",
      "s", "a", "b", "l", "e", " ", "(", "e", ".", "g", ".", ",", " ", "\"", "e", "s",
      "t", "i", "m", "a", "t", "e", "d", " ", "5", "0", "-", "1", "0", "0", " ", "l",
      "i", "t", "e", "r", "s", "\"", " ", "o", "r", " ", "\"", "l", "a", "r", "g", "e",
      " ", "s", "p", "i", "l", "l", "\"", ")", ".", "\n", " ", " ", " ", " ", " ", " ",
      " ", " ", "-", " ", "e", "n", "v", "i", "r", "o", "n", "m", "e", "n", "t", "a",
      "l", "_", "i", "m", "p", "a", "c", "t", ":", " ", "d", "e", "s", "c", "r", "i",
      "b", "e", " ", "e", "n", "v", "i", "r", "o", "n", "m", "e", "n", "t", "a", "l",
      " ", "d", "a", "m", "a", "g", "e", " ", "(", "e", ".", "g", ".", ",", " ", "\"",
      "s", "o", "i", "l", " ", "c", "o", "n", "t", "a", "m", "i", "n", "a", "t", "i",
      "o", "n", " ", "i", "n", " ", "s", "u", "r", "r", "o", "u", "n", "d", "i", "n",
      "g", " ", "a", "r", "e", "a", "\"", ",", " ", "\"", "l", "e", "a", "k", " ", "r",
      "e", "a", "c", "h", "i", "n", "g", " ", "w", "a", "t", "e", "r", " ", "s", "o",
      "u", "r", "c", "e", "\"", ")", ".", "\n", " ", " ", " ", " ", " ", " ", " ", " ",
      "-", " ", "p", "p", "e", "_", "m", "i", "s", "s", "i", "n", "g", ":", " ", "l",
      "i", "s", "t", " ", "o", "f", " ", "m", "i", "s", "s", "i", "n", "g", " ", "P",
      "P", "E", " ", "i", "t", "e", "m", "s", " ", "a", "s", " ", "E", "n", "g", "l",
      "i", "s", "h", " ", "a", "r", "r", "a", "y", " ", "(", "e", ".", "g", ".", ",",
      " ", "[", "\"", "h", "a", "r", "d", " ", "h", "a", "t", "\"", ",", " ", "\"", "s",
      "a", "f", "e", "t", "y", " ", "g", "o", "g", "g", "l", "e", "s", "\"", ",", " ",
      "\"", "g", "l", "o", "v", "e", "s", "\"", "]", ")", " ", "o", "r", " ", "n", "u",
      "l", "l", " ", "i", "f", " ", "a", "l", "l", " ", "p", "r", "e", "s", "e", "n",
      "t", ".", "\n", "\n", " ", " ", " ", " ", " ", " ", " ", " ", "C", "O", "N", "S",
      "T", "R", "U", "C", "T", "I", "O", "N", " ", "S", "A", "F", "E", "T", "Y", " ",
      "F", "i", "e", "l", "d", "s", " ", "(", "i", "f", " ", "s", "i", "t", "e", "_",
      "t", "y", "p", "e", " ", "i", "s", " ", "\"", "c", "o", "n", "s", "t", "r", "u",
      "c", "t", "i", "o", "n", "\"", ")", ":", "\n", " ", " ", " ", " ", " ", " ", " ",
      " ", "-", " ", "c", "o", "n", "s", "t", "r", "u", "c", "t", "i", "o", "n", "_",
      "t", "y", "p", "e", ":", " ", "o", "n", "e", " ", "o", "f", " ", "[", "s", "t",
      "r", "u", "c", "t", "u", "r", "a", "l", " ", "i", "s", "s", "u", "e", ",", " ",
      "e", "q", "u", "i", "p", "m", "e", "n", "t", " ", "d", "a", "m", "a", "g", "e",
      ",", " ", "s", "a", "f", "e", "t", "y", " ", "v", "i", "o", "l", "a", "t", "i",
      "o", "n", ",", " ", "w", "o", "r", "k", "p", "l", "a", "c", "e", " ", "h", "a",
      "z", "a", "r", "d", ",", " ", "m", "a", "t", "e", "r", "i", "a", "l", " ", "d",
      "e", "f", "e", "c", "t", ",", " ", "f", "a", "l", "l", " ", "h", "a", "z", "a",
      "r", "d", ",", " ", "e", "x", "c", "a", "v", "a", "t", "i", "o", "n", " ", "i",
      "s", "s", "u", "e", ",", " ", "s", "c", "a", "f", "f", "o", "l", "d", "i", "n",
      "g", " ", "i", "s", "s", "u", "e", ",", " ", "e", "l", "e", "c", "t", "r", "i",
      "c", "a", "l", " ", "h", "a", "z", "a", "r", "d", ",", " ", "h", "e", "a", "v",
      "y", " ", "e", "q", "u", "i", "p", "m", "e", "n", "t", " ", "i", "n", "c", "i",
      "d", "e", "n", "t", "]", ".", "\n", " ", " ", " ", " ", " ", " ", " ", " ", "-",
      " ", "s", "t", "r", "u", "c", "t", "u", "r", "e", "_", "a", "f", "f", "e", "c",
      "t", "e", "d", ":", " ", "i", "d", "e", "n", "t", "i", "f", "y", " ", "s", "t",
      "r", "u", "c", "t", "u", "r", "e", " ", "(", "e", ".", "g", ".", ",", " ", "\"",
      "s", "c", "a", "f", "f", "o", "l", "d", "i", "n", "g", " ", "o", "n", " ", "e",
      "a", "s", "t", " ", "s", "i", "d", "e", "\"", ",", " ", "\"", "s", "e", "c", "o",
      "n", "d", " ", "f", "l", "o", "o", "r", " ", "o", "f", " ", "b", "u", "i", "l",
      "d", "i", "n", "g", "\"", ")", ".", "\n", " ", " ", " ", " ", " ", " ", " ", " ",
      "-", " ", "m", "a", "t", "e", "r", "i", "a", "l", "s", "_", "i", "n", "v", "o",
      "l", "v", "e", "d", ":", " ", "c", "o", "n", "s", "t", "r", "u", "c", "t", "i",
      "o", "n", " ", "m", "a", "t", "e", "r", "i", "a", "l", "s", " ", "i", "n", "v",
      "o", "l", "v", "e", "d", " ", "(", "e", ".", "g", ".", ",", " ", "\"", "c", "o",
      "n", "c", "r", "e", "t", "e", ",", " ", "r", "e", "b", "a", "r", "\"", ",", " ",
      "\"", "t", "i", "m", "b", "e", "r", "\"", ")", ".", "\n", " ", " ", " ", " ", " ",
      " ", " ", " ", "-", " ", "h", "e", "i", "g", "h", "t", "_", "e", "l", "e", "v",
      "a", "t", "i", "o", "n", ":", " ", "i", "f", " ", "f", "a", "l", "l", " ", "h",
      "a", "z", "a", "r", "d", " ", "o", "r", " ", "w", "o", "r", "k", " ", "a", "t",
      " ", "h", "e", "i", "g", "h", "t", " ", "(", "e", ".", "g", ".", ",", " ", "\"",
      "a", "p", "p", "r", "o", "x", "i", "m", "a", "t", "e", "l", "y", " ", "1", "5",
      " ", "m", "e", "t", "e", "r", "s", " ", "h", "i", "g", "h", "\"", ")", ".", "\n",
      " ", " ", " ", " ", " ", " ", " ", " ", "-", " ", "e", "q", "u", "i", "p", "m",
      "e", "n", "t", "_", "i", "n", "v", "o", "l", "v", "e", "d", ":", " ", "c", "o",
      "n", "s", "t", "r", "u", "c", "t", "i", "o", "n", " ", "e", "q", "u", "i", "p",
      "m", "e", "n", "t", " ", "(", "e", ".", "g", ".", ",", " ", "\"", "t", "o", "w",
      "e", "r", " ", "c", "r", "a", "n", "e", "\"", ",", " ", "\"", "c", "o", "n", "c",
      "r", "e", "t", "e", " ", "m", "i", "x", "e", "r", "\"", ")", ".", "\n", "\n", " ",
      " ", " ", " ", " ", " ", " ", " ", "I", "m", "p", "o", "r", "t", "a", "n", "t",
      ":", "\n", " ", " ", " ", " ", " ", " ", " ", " ", "-", " ", "Y", "O", "U", " ",
      "M", "U", "S", "T", " ", "D", "E", "C", "I", "D", "E", " ", "s", "e", "v", "e",
      "r", "i", "t", "y", " ", "b", "a", "s", "e", "d", " ", "o", "n", " ", "t", "h",
      "e", " ", "s", "a", "f", "e", "t", "y", " ", "r", "i", "s", "k", " ", "l", "e",
      "v", "e", "l", " ", "v", "i", "s", "i", "b", "l", "e", " ", "i", "n", " ", "t",
      "h", "e", " ", "v", "i", "d", "e", "o", ".", "\n", " ", " ", " ", " ", " ", " ",
      " ", " ", "-", " ", "I", "f", " ", "a", " ", "f", "i", "e", "l", "d", " ", "i",
      "s", " ", "n", "o", "t", " ", "r", "e", "l", "e", "v", "a", "n", "t", " ", "f",
      "o", "r", " ", "t", "h", "e", " ", "d", "e", "t", "e", "c", "t", "e", "d", " ",
      "s", "i", "t", "e", "_", "t", "y", "p", "e", ",", " ", "s", "e", "t", " ", "i",
      "t", " ", "t", "o", " ", "n", "u", "l", "l", ".", "\n", " ", " ", " ", " ", " ",
      " ", " ", " ", "-", " ", "F", "o", "r", " ", "p", "p", "e", "_", "m", "i", "s",
      "s", "i", "n", "g", ",", " ", "r", "e", "t", "u", "r", "n", " ", "a", "r", "r",
      "a", "y", " ", "o", "f", " ", "E", "n", "g", "l", "i", "s", "h", " ", "P", "P",
      "E", " ", "n", "a", "m", "e", "s", " ", "o", "r", " ", "n", "u", "l", "l", ".",
      "\n", " ", " ", " ", " ", " ", " ", " ", " ", "-", " ", "B", "e", " ", "p", "r",
      "e", "c", "i", "s", "e", ":", " ", "e", "q", "u", "i", "p", "m", "e", "n", "t",
      " ", "I", "D", "s", ",", " ", "s", "u", "b", "s", "t", "a", "n", "c", "e", " ",
      "t", "y", "p", "e", "s", ",", " ", "a", "n", "d", " ", "l", "o", "c", "a", "t",
      "i", "o", "n", "s", " ", "h", "e", "l", "p", " ", "H", "S", "E", " ", "t", "e",
      "a", "m", " ", "r", "e", "s", "p", "o", "n", "d", " ", "e", "f", "f", "e", "c",
      "t", "i", "v", "e", "l", "y", ".", "\n", " ", " ", " ", " ", " ", " ", " ", " ",
      "-", " ", "A", "l", "l", " ", "d", "e", "s", "c", "r", "i", "p", "t", "i", "o",
      "n", "s", " ", "m", "u", "s", "t", " ", "b", "e", " ", "d", "e", "t", "a", "i",
      "l", "e", "d", " ", "e", "n", "o", "u", "g", "h", " ", "f", "o", "r", " ", "s",
      "a", "f", "e", "t", "y", " ", "i", "n", "v", "e", "s", "t", "i", "g", "a", "t",
      "i", "o", "n", " ", "a", "n", "d", " ", "c", "o", "r", "r", "e", "c", "t", "i",
      "v", "e", " ", "a", "c", "t", "i", "o", "n", " ", "i", "n", " ", "E", "n", "g",
      "l", "i", "s", "h", ".", "\n", " ", " ", " ", " ", " ", " ", " ", " ">>

\* address and timestamp of a submission
Requests ==
    LET plain ==
            <<"2", "0", "2", "4", "-", "0", "1", "-", "0", "1", "T", "1", "0", ":", "0",
              "0", ":", "0", "0">>
        main ==
            <<"M", "a", "i", "n", " ", "G", "a", "t", "e">>
    IN { <<main, plain>>,
         <<<<"G", "a", "t", "e", " ", "{", "x", "}">>, plain>>,
         <<<<"P", "i", "e", "r", " ", "{">>, plain>>,
         <<<<"B", "a", "y", " ", "{", "q", "u", "o", "t", "a", "}">>, plain>>,
         <<<<"G", "a", "t", "e", " ", "{", "4", "2", "9", "}">>, plain>>,
         <<Chars("Gate {address:d}"), plain>>,
         <<main, <<"{", "4", "2", "9", "}">>>>,
         <<main, <<"2", "0", "2", "4", "-", "0", "1", "-", "0", "1", " ", "{", "x", "}">>>> }

\* the messages of the errors of str.format
FormatMessages ==
    [ index_head |->
        <<"R", "e", "p", "l", "a", "c", "e", "m", "e", "n", "t", " ", "i", "n", "d",
          "e", "x", " ">>,
      index_tail |->
        <<" ", "o", "u", "t", " ", "o", "f", " ", "r", "a", "n", "g", "e", " ", "f",
          "o", "r", " ", "p", "o", "s", "i", "t", "i", "o", "n", "a", "l", " ", "a",
          "r", "g", "s", " ", "t", "u", "p", "l", "e">>,
      single_close |->
        <<"S", "i", "n", "g", "l", "e", " ", "'", "}", "'", " ", "e", "n", "c", "o",
          "u", "n", "t", "e", "r", "e", "d", " ", "i", "n", " ", "f", "o", "r", "m",
          "a", "t", " ", "s", "t", "r", "i", "n", "g">>,
      single_open |->
        <<"S", "i", "n", "g", "l", "e", " ", "'", "{", "'", " ", "e", "n", "c", "o",
          "u", "n", "t", "e", "r", "e", "d", " ", "i", "n", " ", "f", "o", "r", "m",
          "a", "t", " ", "s", "t", "r", "i", "n", "g">>,
      unexpected_open |->
        <<"u", "n", "e", "x", "p", "e", "c", "t", "e", "d", " ", "'", "{", "'", " ",
          "i", "n", " ", "f", "i", "e", "l", "d", " ", "n", "a", "m", "e">>,
      unclosed |->
        <<"e", "x", "p", "e", "c", "t", "e", "d", " ", "'", "}", "'", " ", "b", "e",
          "f", "o", "r", "e", " ", "e", "n", "d", " ", "o", "f", " ", "s", "t", "r",
          "i", "n", "g">>,
      conversion_end |->
        <<"e", "n", "d", " ", "o", "f", " ", "s", "t", "r", "i", "n", "g", " ", "w",
          "h", "i", "l", "e", " ", "l", "o", "o", "k", "i", "n", "g", " ", "f", "o",
          "r", " ", "c", "o", "n", "v", "e", "r", "s", "i", "o", "n", " ", "s", "p",
          "e", "c", "i", "f", "i", "e", "r">>,
      conversion_colon |->
        <<"e", "x", "p", "e", "c", "t", "e", "d", " ", "'", ":", "'", " ", "a", "f",
          "t", "e", "r", " ", "c", "o", "n", "v", "e", "r", "s", "i", "o", "n", " ",
          "s", "p", "e", "c", "i", "f", "i", "e", "r">>,
      unmatched |->
        <<"u", "n", "m", "a", "t", "c", "h", "e", "d", " ", "'", "{", "'", " ", "i",
          "n", " ", "f", "o", "r", "m", "a", "t", " ", "s", "p", "e", "c">>,
      too_many_digits |->
        <<"T", "o", "o", " ", "m", "a", "n", "y", " ", "d", "e", "c", "i", "m", "a",
          "l", " ", "d", "i", "g", "i", "t", "s", " ", "i", "n", " ", "f", "o", "r",
          "m", "a", "t", " ", "s", "t", "r", "i", "n", "g">>,
      unknown_conversion |->
        <<"U", "n", "k", "n", "o", "w", "n", " ", "c", "o", "n", "v", "e", "r", "s",
          "i", "o", "n", " ", "s", "p", "e", "c", "i", "f", "i", "e", "r", " ">> ]

FormatError(type, msg) == [type |-> type, msg |-> msg]

DigitValue ==
    [ c \in {"0", "1", "2", "3", "4", "5", "6", "7", "8", "9"} |->
        CASE c = "0" -> 0 [] c = "1" -> 1 [] c = "2" -> 2 [] c = "3" -> 3 [] c = "4" -> 4
          [] c = "5" -> 5 [] c = "6" -> 6 [] c = "7" -> 7 [] c = "8" -> 8 [] c = "9" -> 9 ]

\* PY_SSIZE_T_MAX, the largest index get_integer accepts
MaxIndexDigits ==
    <<"9", "2", "2", "3", "3", "7", "2", "0", "3", "6", "8", "5", "4", "7", "7", "5",
      "8", "0", "7">>

\* the least position k >= i of t that holds a character of S, 0 when none does
FirstOf(t, i, S) ==
    IF \E k \in i..Len(t) : t[k] \in S
    THEN CHOOSE k \in i..Len(t) : t[k] \in S /\ \A j \in i..(k - 1) : t[j] \notin S
    ELSE 0

\* parse_field, the format spec: scanned from position i with count braces
\* open, the position of the "}" that closes the field, 0 when the text ends first
RECURSIVE FormatSpecEnd(_, _, _)
FormatSpecEnd(t, i, count) ==
    LET k == FirstOf(t, i, {"{", "}"}) IN
    IF k = 0 THEN 0
    ELSE IF t[k] = "{" THEN FormatSpecEnd(t, k + 1, count + 1)
    ELSE IF count = 1 THEN k
    ELSE FormatSpecEnd(t, k + 1, count - 1)

\* parse_field, the field name: the position of the "}", ":", "!" or "{" that
\* ends it, 0 when the text ends first; what lies from a "[" to the next "]"
\* is passed over
RECURSIVE FieldNameEnd(_, _)
FieldNameEnd(t, i) ==
    LET k == FirstOf(t, i, {"{", "}", ":", "!", "["}) IN
    IF k = 0 THEN 0
    ELSE IF t[k] = "["
    THEN LET c == FirstOf(t, k + 1, {"]"}) IN
         IF c = 0 THEN 0 ELSE FieldNameEnd(t, c + 1)
    ELSE k

\* a replacement field as parse_field leaves it: its name, its conversion
\* character (None without one), its format spec and the position after its
\* closing "}"
Field(name, conversion, spec, next) ==
    [error |-> None, name |-> name, conversion |-> conversion, spec |-> spec, next |-> next]
FieldError(msg) ==
    [error |-> FormatError("ValueError", msg), name |-> <<>>, conversion |-> None,
     spec |-> <<>>, next |-> 0]

\* the field whose format spec runs from position s
FieldWithSpec(t, name, conversion, s) ==
    IF FormatSpecEnd(t, s, 1) = 0 THEN FieldError(FormatMessages.unmatched)
    ELSE Field(name, conversion, SubSeq(t, s, FormatSpecEnd(t, s, 1) - 1),
               FormatSpecEnd(t, s, 1) + 1)

\* parse_field for the replacement field whose name starts at position i
ParseField(t, i) ==
    LET j == FieldNameEnd(t, i) IN
    IF j = 0 THEN FieldError(FormatMessages.unclosed)
    ELSE IF t[j] = "{" THEN FieldError(FormatMessages.unexpected_open)
    ELSE IF t[j] = "}" THEN Field(SubSeq(t, i, j - 1), None, <<>>, j + 1)
    ELSE IF t[j] = ":" THEN FieldWithSpec(t, SubSeq(t, i, j - 1), None, j + 1)
    ELSE IF j + 1 > Len(t) THEN FieldError(FormatMessages.conversion_end)
    ELSE IF j + 2 > Len(t) THEN FieldWithSpec(t, SubSeq(t, i, j - 1), Str(t[j + 1]), j + 2)
    ELSE IF t[j + 2] = "}" THEN Field(SubSeq(t, i, j - 1), Str(t[j + 1]), <<>>, j + 3)
    ELSE IF t[j + 2] # ":" THEN FieldError(FormatMessages.conversion_colon)
    ELSE FieldWithSpec(t, SubSeq(t, i, j - 1), Str(t[j + 1]), j + 3)

\* ord() of the characters a text of this module can hold: the tab, the line
\* feed, the form feed, the carriage return, the printable characters of ASCII
\* but the grave accent (32 to 95, 97 to 126) and the characters from 160 to 255
Latin1 ==
    LET codes(first, s) ==
            [c \in {s[i] : i \in DOMAIN s} |-> first - 1 + CHOOSE i \in DOMAIN s : s[i] = c]
    IN codes(9, <<"\t", "\n">>) @@ codes(12, <<"\f", "\r">>)
       @@ codes(32, Chars(" !\"#$%&'()*+,-./0123456789:;<=>?@ABCDEFGHIJKLMNOPQRSTUVWXYZ[\\]^_"))
       @@ codes(97, Chars("abcdefghijklmnopqrstuvwxyz{|}~"))
       @@ codes(160, Chars(" ¡¢£¤¥¦§¨©ª«¬­®¯°±²³´µ¶·¸¹º»¼½¾¿ÀÁÂÃÄÅÆÇÈÉÊËÌÍÎÏÐÑÒÓÔÕÖ×ØÙÚÛÜÝÞßàáâãäåæçèéêëìíîïðñòóôõö÷øùúûüýþÿ"))

\* "\x" and the hexadecimal digits of the code of c, two at least when padded
HexEscape(c, padded) ==
    LET d == Chars("0123456789abcdef")
        n == Latin1[c]
    IN <<"\\", "x">> \o (IF n >= 16 \/ padded THEN <<d[(n \div 16) + 1]>> ELSE <<>>)
                    \o <<d[(n % 16) + 1]>>

\* the body of repr() of a str between the quotes chosen: the backslash and the
\* quote escaped, "\n", "\r" and "\t" by name, and by "\x" and their code the
\* characters that are not printable (below 32, 127 to 160, 173) and, for
\* ascii(), those from 128 on
RECURSIVE ReprBody(_, _, _)
ReprBody(s, quote, ascii) ==
    IF s = <<>> THEN <<>>
    ELSE (IF Head(s) = "\\" \/ Head(s) = quote THEN <<"\\", Head(s)>>
          ELSE IF Head(s) = "\n" THEN <<"\\", "n">>
          ELSE IF Head(s) = "\r" THEN <<"\\", "r">>
          ELSE IF Head(s) = "\t" THEN <<"\\", "t">>
          ELSE IF \/ Latin1[Head(s)] < 32
                  \/ Latin1[Head(s)] \in 127..160
                  \/ Latin1[Head(s)] = 173
                  \/ ascii /\ Latin1[Head(s)] >= 128
          THEN HexEscape(Head(s), TRUE)
          ELSE <<Head(s)>>) \o ReprBody(Tail(s), quote, ascii)

\* repr() of a str (which is str() of the KeyError raised for it), and ascii()
\* of it
Quoted(s, ascii) ==
    LET quote == IF (\E i \in DOMAIN s : s[i] = "'") /\ (\A i \in DOMAIN s : s[i] # "\"")
                 THEN "\"" ELSE "'"
    IN <<quote>> \o ReprBody(s, quote, ascii) \o <<quote>>

\* get_integer reads the digits s begins with
RECURSIVE DigitPrefix(_)
DigitPrefix(s) ==
    IF s # <<>> /\ Head(s) \in DOMAIN DigitValue
    THEN <<Head(s)>> \o DigitPrefix(Tail(s))
    ELSE <<>>

\* the digits d without their leading zeros
RECURSIVE StripZeros(_)
StripZeros(d) == IF d # <<>> /\ Head(d) = "0" THEN StripZeros(Tail(d)) ELSE d

\* the number written d exceeds PY_SSIZE_T_MAX (d without leading zeros)
TooManyDigits(d) ==
    \/ Len(d) > Len(MaxIndexDigits)
    \/ /\ Len(d) = Len(MaxIndexDigits)
       /\ \E k \in DOMAIN d :
            /\ DigitValue[d[k]] > DigitValue[MaxIndexDigits[k]]
            /\ \A j \in 1..(k - 1) : d[j] = MaxIndexDigits[j]

\* the number written d, or 10^6 when it is larger (no text of the model is
\* that long)
RECURSIVE SmallValue(_)
SmallValue(d) ==
    IF Len(StripZeros(d)) > 6 THEN 1000000
    ELSE IF d = <<>> THEN 0
    ELSE 10 * SmallValue(SubSeq(d, 1, Len(d) - 1)) + DigitValue[d[Len(d)]]

\* what formatting a field, or a text, gives: the error raised (None without
\* one) and the text, when the model knows it
FormatResult(error, known, text) == [error |-> error, known |-> known, text |-> text]
FormatRaises(type, msg) == FormatResult(FormatError(type, Chars(msg)), FALSE, <<>>)
\* a case the model gives no outcome for
OutsideModel == FormatResult(FormatError("OutsideModel", <<>>), FALSE, <<>>)

\* an object a field names: a str, its text known or not, or an object of
\* another type
Object(type, known, text) == [type |-> type, known |-> known, text |-> text]

\* type(getattr("", name)).__name__ for the attributes of str (Python 3.11), ""
\* for a name str has no attribute of
StrAttributeType(name) ==
    LET wrappers == {"__add__", "__contains__", "__delattr__", "__eq__",
                     "__ge__", "__getattribute__", "__getitem__", "__gt__",
                     "__hash__", "__init__", "__iter__", "__le__", "__len__",
                     "__lt__", "__mod__", "__mul__", "__ne__", "__repr__",
                     "__rmod__", "__rmul__", "__setattr__", "__str__"}
        methods == {"__dir__", "__format__", "__getnewargs__",
                    "__getstate__", "__init_subclass__", "__new__",
                    "__reduce__", "__reduce_ex__", "__sizeof__",
                    "__subclasshook__", "capitalize", "casefold", "center",
                    "count", "encode", "endswith", "expandtabs", "find",
                    "format", "format_map", "index", "isalnum", "isalpha",
                    "isascii", "isdecimal", "isdigit", "isidentifier",
                    "islower", "isnumeric", "isprintable", "isspace",
                    "istitle", "isupper", "join", "ljust", "lower", "lstrip",
                    "maketrans", "partition", "removeprefix", "removesuffix",
                    "replace", "rfind", "rindex", "rjust", "rpartition",
                    "rsplit", "rstrip", "split", "splitlines", "startswith",
                    "strip", "swapcase", "title", "translate", "upper",
                    "zfill"}
    IN IF name = Chars("__doc__") THEN "str"
       ELSE IF name = Chars("__class__") THEN "type"
       ELSE IF name \in {Chars(n) : n \in wrappers} THEN "method-wrapper"
       ELSE IF name \in {Chars(n) : n \in methods} THEN "builtin_function_or_method"
       ELSE ""

\* get_field_object, the loop over the rest of the field name from position i:
\* FieldNameIterator_next reads ".name" or "[key]", and getattr or the subscript
\* is applied to obj.  The error, or the object the field names.
RECURSIVE Accessors(_, _, _)
Accessors(obj, rest, i) ==
    IF i > Len(rest) THEN [error |-> None, obj |-> obj]
    ELSE IF rest[i] = "."
    THEN LET k == FirstOf(rest, i + 1, {".", "["})
             end == IF k = 0 THEN Len(rest) + 1 ELSE k
             name == SubSeq(rest, i + 1, end - 1)
         IN IF name = <<>> THEN FormatRaises("ValueError", "Empty attribute in format string")
            ELSE IF obj.type # "str" THEN OutsideModel
            ELSE IF StrAttributeType(name) = ""
            THEN FormatResult(
                     FormatError("AttributeError",
                         Chars("'str' object has no attribute '") \o name \o <<"'">>),
                     FALSE, <<>>)
            ELSE IF StrAttributeType(name) = "str"
            THEN Accessors(Object("str", FALSE, <<>>), rest, end)
            ELSE Accessors(Object(StrAttributeType(name), FALSE, <<>>), rest, end)
    ELSE IF rest[i] = "["
    THEN LET k == FirstOf(rest, i + 1, {"]"})
             key == SubSeq(rest, i + 1, k - 1)
             digits == StripZeros(DigitPrefix(key))
         IN IF k = 0 THEN FormatRaises("ValueError", "Missing ']' in format string")
            ELSE IF TooManyDigits(digits)
            THEN FormatRaises("ValueError", "Too many decimal digits in format string")
            ELSE IF key = <<>>
            THEN FormatRaises("ValueError", "Empty attribute in format string")
            ELSE IF obj.type # "str" THEN OutsideModel
            ELSE IF Len(DigitPrefix(key)) # Len(key)
            THEN FormatRaises("TypeError", "string indices must be integers, not 'str'")
            ELSE IF ~obj.known THEN OutsideModel
            ELSE IF SmallValue(digits) >= Len(obj.text)
            THEN FormatRaises("IndexError", "string index out of range")
            ELSE Accessors(Object("str", TRUE, <<obj.text[SmallValue(digits) + 1]>>), rest, k + 1)
    ELSE FormatRaises("ValueError",
             "Only '.' or '[' may follow ']' in format field specifier")

\* get_field_object with no positional argument and the keywords address and
\* timestamp: the error, or the object the field names
FieldLookup(name, values) ==
    LET k == FirstOf(name, 1, {".", "["})
        first == IF k = 0 THEN name ELSE SubSeq(name, 1, k - 1)
        index == StripZeros(DigitPrefix(first))
    IN IF TooManyDigits(index)
       THEN FormatRaises("ValueError", "Too many decimal digits in format string")
       ELSE IF Len(DigitPrefix(first)) = Len(first)
       THEN FormatResult(
                FormatError("IndexError",
                    FormatMessages.index_head \o (IF index = <<>> THEN <<"0">> ELSE index)
                        \o FormatMessages.index_tail),
                FALSE, <<>>)
       ELSE IF first \notin {Chars("address"), Chars("timestamp")}
       THEN FormatResult(FormatError("KeyError", Quoted(first, FALSE)), FALSE, <<>>)
       ELSE Accessors(Object("str", TRUE, IF first = Chars("address") THEN values.address
                                      ELSE values.timestamp),
                      IF k = 0 THEN <<>> ELSE SubSeq(name, k, Len(name)), 1)

\* str.__format__(obj, spec): parse_internal_render_format_spec reads
\* [[fill]align][sign][z][#][0][width][,][_][.precision][type] from the left,
\* then format_string_internal refuses what a str cannot take, cuts the text to
\* the precision and pads it to the width.  The steps are written last first;
\* f holds what was read and pos the position reached.
FormatStr(obj, spec) ==
    LET end == Len(spec)
        At(p) == IF p <= end THEN spec[p] ELSE ""
        Raises(msg) == FormatResult(FormatError("ValueError", msg), FALSE, <<>>)
        Code(c) == IF 32 < Latin1[c] /\ Latin1[c] < 128 THEN <<c>> ELSE HexEscape(c, FALSE)
        \* format_string_internal, the padding
        Pad(f, cut, pad) ==
            LET left == IF f.align = ">" THEN pad ELSE IF f.align = "^" THEN pad \div 2 ELSE 0
            IN [j \in 1..left |-> f.fill] \o cut \o [j \in 1..(pad - left) |-> f.fill]
        Cut(f, width, cut) ==
            Pad(f, cut, IF width > Len(cut) THEN width - Len(cut) ELSE 0)
        \* format_string_internal for the presentation type "s"
        Render(f) ==
            IF f.sign = " "
            THEN FormatRaises("ValueError", "Space not allowed in string format specifier")
            ELSE IF f.sign # ""
            THEN FormatRaises("ValueError", "Sign not allowed in string format specifier")
            ELSE IF f.z
            THEN FormatRaises("ValueError",
                     "Negative zero coercion (z) not allowed in string format specifier")
            ELSE IF f.alt
            THEN FormatRaises("ValueError",
                     "Alternate form (#) not allowed in string format specifier")
            ELSE IF f.align = "="
            THEN FormatRaises("ValueError",
                     "'=' alignment not allowed in string format specifier")
            ELSE IF SmallValue(f.width) > MaxWidth THEN OutsideModel
            ELSE IF ~obj.known THEN FormatResult(None, FALSE, <<>>)
            ELSE FormatResult(None, TRUE,
                     Cut(f, SmallValue(f.width),
                         IF f.dot /\ SmallValue(f.precision) < Len(obj.text)
                         THEN SubSeq(obj.text, 1, SmallValue(f.precision)) ELSE obj.text))
        \* the presentation type, the thousands separator checked against it
        Typed(f, type) ==
            IF f.separator # "" /\ type \notin {"d", "e", "f", "g", "E", "G", "%", "F"}
                                /\ ~(f.separator = "_" /\ type \in {"b", "o", "x", "X"})
            THEN Raises(Chars("Cannot specify '") \o <<f.separator>> \o Chars("' with '")
                        \o Code(type) \o Chars("'."))
            ELSE IF type # "s"
            THEN Raises(Chars("Unknown format code '") \o Code(type)
                        \o Chars("' for object of type 'str'"))
            ELSE Render(f)
        ReadType(f) ==
            IF end - f.pos + 1 > 1
            THEN Raises(Chars("Invalid format specifier '") \o spec
                        \o Chars("' for object of type 'str'"))
            ELSE Typed(f, IF f.pos = end THEN spec[end] ELSE "s")
        \* [.precision]
        Precision(f, dot, digits) ==
            IF dot /\ TooManyDigits(StripZeros(digits))
            THEN FormatRaises("ValueError", "Too many decimal digits in format string")
            ELSE IF dot /\ digits = <<>>
            THEN FormatRaises("ValueError", "Format specifier missing precision")
            ELSE ReadType(IF dot
                          THEN [f EXCEPT !.dot = TRUE, !.precision = digits,
                                         !.pos = f.pos + 1 + Len(digits)]
                          ELSE f)
        ReadPrecision(f) ==
            Precision(f, At(f.pos) = ".", DigitPrefix(SubSeq(spec, f.pos + 1, end)))
        \* [,][_]
        ReadUnderscore(f) ==
            IF At(f.pos) = "_" /\ (f.separator = "," \/ At(f.pos + 1) = ",")
            THEN FormatRaises("ValueError", "Cannot specify both ',' and '_'.")
            ELSE ReadPrecision(IF At(f.pos) = "_"
                               THEN [f EXCEPT !.separator = "_", !.pos = f.pos + 1]
                               ELSE f)
        ReadComma(f) ==
            ReadUnderscore(IF At(f.pos) = ","
                           THEN [f EXCEPT !.separator = ",", !.pos = f.pos + 1]
                           ELSE f)
        \* [width]
        Width(f, digits) ==
            IF TooManyDigits(StripZeros(digits))
            THEN FormatRaises("ValueError", "Too many decimal digits in format string")
            ELSE ReadComma([f EXCEPT !.width = digits, !.pos = f.pos + Len(digits)])
        ReadWidth(f) == Width(f, DigitPrefix(SubSeq(spec, f.pos, end)))
        \* [0], which is the fill when none was given
        ReadZero(f) ==
            ReadWidth(IF ~f.fill_given /\ At(f.pos) = "0"
                      THEN [f EXCEPT !.fill = "0", !.pos = f.pos + 1]
                      ELSE f)
        \* [sign][z][#]
        ReadAlt(f) ==
            ReadZero(IF At(f.pos) = "#" THEN [f EXCEPT !.alt = TRUE, !.pos = f.pos + 1] ELSE f)
        ReadZ(f) ==
            ReadAlt(IF At(f.pos) = "z" THEN [f EXCEPT !.z = TRUE, !.pos = f.pos + 1] ELSE f)
        ReadSign(f) ==
            ReadZ(IF At(f.pos) \in {" ", "+", "-"}
                  THEN [f EXCEPT !.sign = At(f.pos), !.pos = f.pos + 1]
                  ELSE f)
        \* [[fill]align]
        Aligned(fill_given, fill, align, pos) ==
            [ fill_given |-> fill_given, fill |-> fill, align |-> align, sign |-> "",
              z |-> FALSE, alt |-> FALSE, width |-> <<>>, separator |-> "",
              dot |-> FALSE, precision |-> <<>>, pos |-> pos ]
    IN IF spec = <<>> THEN FormatResult(None, obj.known, obj.text)
       ELSE ReadSign(IF end >= 2 /\ spec[2] \in {"<", ">", "=", "^"}
                     THEN Aligned(TRUE, spec[1], spec[2], 3)
                     ELSE IF spec[1] \in {"<", ">", "=", "^"}
                     THEN Aligned(FALSE, " ", spec[1], 2)
                     ELSE Aligned(FALSE, " ", "<", 1))

\* str.format (build_string) scanning t from position i, with depth levels of
\* nesting left and out the text built so far; and output_markup for one field:
\* the object looked up, the conversion, the format spec expanded by
\* build_string one level down when it holds a "{", and format() of the object
RECURSIVE Format(_, _, _, _, _, _)
RECURSIVE FormatField(_, _, _)
FormatField(f, values, depth) ==
    LET looked == FieldLookup(f.name, values)
        conversion == IF f.conversion = None THEN "" ELSE f.conversion.s
        converted ==
            IF conversion = "" THEN looked.obj
            ELSE IF looked.obj.type # "str" \/ ~looked.obj.known THEN Object("str", FALSE, <<>>)
            ELSE IF conversion = "s" THEN looked.obj
            ELSE Object("str", TRUE, Quoted(looked.obj.text, conversion = "a"))
        expanded ==
            IF \E k \in DOMAIN f.spec : f.spec[k] = "{"
            THEN Format(f.spec, 1, values, depth - 1, TRUE, <<>>)
            ELSE FormatResult(None, TRUE, f.spec)
    IN IF looked.error # None THEN looked
       ELSE IF conversion \notin {"", "r", "s", "a"}
       THEN FormatResult(
                FormatError("ValueError",
                    FormatMessages.unknown_conversion
                        \o (IF 32 < Latin1[conversion] /\ Latin1[conversion] < 127
                            THEN <<conversion>> ELSE HexEscape(conversion, FALSE))),
                FALSE, <<>>)
       ELSE IF expanded.error # None THEN expanded
       ELSE IF ~expanded.known THEN OutsideModel
       ELSE IF converted.type = "str" THEN FormatStr(converted, expanded.text)
       ELSE IF expanded.text = <<>> THEN FormatResult(None, FALSE, <<>>)
       ELSE FormatResult(
                FormatError("TypeError",
                    Chars("unsupported format string passed to ") \o Chars(converted.type)
                        \o Chars(".__format__")),
                FALSE, <<>>)

Format(t, i, values, depth, known, out) ==
    LET k == FirstOf(t, i, {"{", "}"}) IN
    IF depth <= 0 THEN FormatRaises("ValueError", "Max string recursion exceeded")
    ELSE IF k = 0 THEN FormatResult(None, known, out \o SubSeq(t, i, Len(t)))
    ELSE IF k < Len(t) /\ t[k + 1] = t[k]
    THEN Format(t, k + 2, values, depth, known, out \o SubSeq(t, i, k))
    ELSE IF t[k] = "}"
    THEN FormatResult(FormatError("ValueError", FormatMessages.single_close), FALSE, <<>>)
    ELSE IF k = Len(t)
    THEN FormatResult(FormatError("ValueError", FormatMessages.single_open), FALSE, <<>>)
    ELSE LET f == ParseField(t, k + 1)
             rest(r) == IF r.error # None THEN r
                        ELSE Format(t, f.next, values, depth, known /\ r.known,
                                    out \o SubSeq(t, i, k - 1) \o r.text)
         IN IF f.error # None THEN FormatResult(f.error, FALSE, <<>>)
            ELSE rest(FormatField(f, values, depth))

\* prompt.format(address=address, timestamp=timestamp), the prompt being the
\* value of the f-string: None when it returns, else the error
PromptFormat(addr, ts) ==
    Format(PromptHead \o addr \o PromptMid \o ts \o PromptTail, 1,
           [address |-> addr, timestamp |-> ts], 2, TRUE, <<>>).error
FormatOutcomes == [r \in Requests |-> PromptFormat(r[1], r[2])]

\* what generate_content may raise
RemoteErrors ==
    { [type |-> "ClientError", msg |-> Chars("429 RESOURCE_EXHAUSTED. Quota exceeded")],
      BadRequestError,
      [type |-> "ServerError",
       msg |-> Chars("503 UNAVAILABLE. The model is overloaded.")],
      ConnectionError }

\* ------------------------------------------------------------------------
\* Arithmetic of the interpreter
\* ------------------------------------------------------------------------
RECURSIVE Pow2(_)
Pow2(n) == IF n = 0 THEN 1 ELSE 2 * Pow2(n - 1)

\* 2 ** n modulo 10000
RECURSIVE Pow2Mod(_)
Pow2Mod(n) == IF n = 0 THEN 1 ELSE (2 * Pow2Mod(n - 1)) % 10000

\* the same for the exponents 52 - ex that occur: ex >= -14 for a quotient of
\* at least 1 / 10000
Pow2Residues == [n \in 0..66 |-> Pow2Mod(n)]

\* the binary exponent of k >= 1: the largest p with 2 ** p <= k
RECURSIVE Log2Floor(_)
Log2Floor(k) == IF k < 2 THEN 0 ELSE 1 + Log2Floor(k \div 2)

\* for 1 <= m < bound, the least k with m * 2 ** k >= bound
RECURSIVE Doublings(_, _)
Doublings(m, bound) == IF m >= bound THEN 0 ELSE 1 + Doublings(2 * m, bound)

\* m / 1000 as a double, for m >= 1: its binary exponent ex (2 ** ex <= m / 1000
\* < 2 ** (ex + 1)) and the remainder r of m * 2 ** (52 - ex) by 1000.  The double
\* is the quotient of that division rounded to the nearest integer, 53 bits
\* long: it lies below m / 1000 when 0 < r < 500 and above it when r > 500
\* (r = 500 cannot happen, the dividend being a multiple of 8).
QuotientExponent(m) == IF m >= 1000 THEN Log2Floor(m \div 1000) ELSE -Doublings(m, 1000)
QuotientRemainder(m) == ((m % 1000) * (Pow2Residues[52 - QuotientExponent(m)] % 1000)) % 1000

\* the numerators the model divides by 1000 (box coordinates and times in ms),
\* their quotients computed once
Quotients ==
    [m \in 1..10100 |-> [ex |-> QuotientExponent(m), r |-> QuotientRemainder(m)]]

\* int(m / 1000 * d) for integers m >= 0 and d >= 0, as IEEE-754 doubles compute
\* it.  m / 1000 is the double nearest to the quotient and the product is rounded
\* to the nearest double again.  When m * d is no multiple of 1000 the exact
\* product lies at least 0.001 from an integer and the two roundings cannot
\* change the integer part.  When it is a multiple, the exact product is the
\* integer K; the result is K - 1 exactly when the quotient was rounded down by
\* so much that the product falls more than half a unit in the last place
\* below K (a tie rounds to K, whose last bit is 0).
DoubleTrunc(m, d) ==
    IF m * d = 0 \/ (m * d) % 1000 # 0 THEN (m * d) \div 1000
    ELSE IF Quotients[m].r = 0 \/ Quotients[m].r > 500 THEN (m * d) \div 1000
    ELSE LET K == (m * d) \div 1000
             p == Log2Floor(K)
             half == IF Pow2(p) = K THEN 1000 * Pow2(p - Quotients[m].ex - 1)
                     ELSE 1000 * Pow2(p - Quotients[m].ex)
         IN IF 2 * d * Quotients[m].r > half THEN K - 1 ELSE K

\* ------------------------------------------------------------------------
\* Retry policy of the primary analysis (lines 438-480)
\* ------------------------------------------------------------------------

Retry(w) == [do |-> "retry", wait |-> w]
GiveUp == [do |-> "return_none", wait |-> 0]
Reraise == [do |-> "raise", wait |-> 0]

\* the except clauses, were they to retry whatever the attempt number
PrimaryDecisionNeverGivesUp(e, a, max) == Retry(Pow2(a) * PrimaryBase)

\* the except clauses of the primary retry loop, for the error e of attempt a
PrimaryDecision(e, a, max) ==
    IF IsClientError(e)
    THEN IF IsOverload(e)
         THEN IF a < max - 1 THEN Retry(Pow2(a) * PrimaryBase) ELSE GiveUp
         ELSE Reraise
    ELSE IF IsOverload(e)
         THEN IF a < max - 1 THEN Retry(Pow2(a) * PrimaryBase) ELSE GiveUp
         ELSE IF a < max - 1 THEN Retry(Pow2(a) * PrimaryUnexpectedBase) ELSE Reraise

\* ------------------------------------------------------------------------
\* Responses of the two structured generations
\* ------------------------------------------------------------------------
EmptyText == [kind |-> "empty"]
MalformedText == [kind |-> "malformed"]
JsonText(v) == [kind |-> "json", value |-> v]

\* json.loads
JsonLoads(t) == IF t.kind = "json" THEN [ok |-> TRUE, value |-> t.value]
                ELSE [ok |-> FALSE, value |-> None]

SampleIncident ==
    [ category |-> "Petroleum Safety", title |-> "Oil spill", description |-> "d",
      severity |-> "high", verified |-> "real", site_type |-> "petroleum" ]

EmptyIncident == [k \in {} |-> ""]

\* TimeStampedEvent values the model may emit; suggested_frame_seconds in 0.1 ms
PersonEvent ==
    [ event_type |-> "person", first_second |-> 2000, confidence |-> 90,
      description |-> "worker without hard hat", suggested_frame_seconds |-> 20000,
      equipment_type |-> None, safety_violation |-> None, ppe_missing |-> None ]
FireEvent ==
    [ event_type |-> "fire", first_second |-> 1500, confidence |-> 80,
      description |-> "fire near tank", suggested_frame_seconds |-> 15645,
      equipment_type |-> None, safety_violation |-> None, ppe_missing |-> None ]

EventChoices ==
    { PersonEvent, FireEvent,
      [ event_type |-> "spill", first_second |-> 5000, confidence |-> 70,
        description |-> "spill after the last frame", suggested_frame_seconds |-> 50000,
        equipment_type |-> None, safety_violation |-> None, ppe_missing |-> None ] }

RECURSIVE SeqsUpTo(_, _)
SeqsUpTo(S, n) ==
    IF n = 0 THEN {<<>>}
    ELSE LET shorter == SeqsUpTo(S, n - 1)
         IN shorter \cup {Append(s, x) : s \in {t \in shorter : Len(t) = n - 1}, x \in S}

\* response_timestamps.parsed: None or a list of events
ParsedChoices == {None} \cup {List(es) : es \in SeqsUpTo(EventChoices, MaxEvents)}

\* event.model_dump(): the dict written to events_output.json
model_dump(ev) == ev

\* ------------------------------------------------------------------------
\* State
\* ------------------------------------------------------------------------
VARIABLES
    pc,                   \* position of the run
    api_key,              \* GOOGLE_Gemini_API_KEY holds a non-empty value
    video,                \* the video file: fps, frame_count, height, width
    max_retries,          \* parameter of run_full_ai_analysis
    batch_size,           \* parameter of run_full_ai_analysis
    address,              \* parameter of run_full_ai_analysis, as its characters
    timestamp,            \* parameter of run_full_ai_analysis, as its characters
    events_file,          \* events_output.json: None, Truncated or the list it holds
    \* analyze_video_with_polling_return_data
    myfile,               \* None while unbound, else [name, state]
    attempt,              \* loop variable of the retry loop being executed
    response,             \* None or the incident response
    response_timestamps,  \* None or the timestamps response
    pending,              \* the return or raise that left the try block: [kind, value]
    completion,           \* how the function completed, after finally: [kind, value]
    \* run_full_ai_analysis
    incident_data,
    detected_events,      \* None until extract_frames_with_comprehensive_output returns
    result,               \* return value of run_full_ai_analysis, None before it returns
    \* extract_frames_with_comprehensive_output
    cap,                  \* the video decoder: "unopened", "open" or "released"
    events,               \* the list loaded from events_output.json
    frame_meta,           \* one entry per frame read (frame_list runs parallel to it)
    batch_start,          \* loop variable of the batch loop
    all_detections,
    saved_files,          \* scene and crop images written to the output folder
    scene_images,         \* each scene image written: the boxes and labels drawn on its frame
    \* observations of the run (not program state)
    calls,                \* remote calls about the uploaded media, in order
    waits,                \* backoff sleeps of the retried call being executed, in order
    history,              \* outcome of each attempt of the retried call being executed
    polls,                \* sleep-and-repoll cycles of the status poll
    observations,         \* every media state received: [slept, state], the upload's first
    written,              \* the list this run wrote to events_output.json, None before
    batch_log,            \* how each finished batch ended: "conforming", "other", "exhausted"
    submitted,            \* batch_start of every batch a request was sent for
    extraction,           \* "none", "succeeded" or "failed": fate of the two requests
    delete_outcome,       \* "none", "ok" or "raised": fate of client.files.delete
    \* a second run of run_full_ai_analysis in another worker thread
    other_pc,             \* "absent", "analyzing", "failed", "opened", "written",
                          \* "loaded" or "load_failed"
    other_written,        \* the list the second run wrote to events_output.json
    other_events,         \* the list the second run loaded from events_output.json
    \* one pass of the loop body over a detection (lines 856-864), taken alone
    det_box_2d,           \* det["box_2d"]: ymin, xmin, ymax, xmax
    frame_height,         \* frame.shape[0]
    frame_width,          \* frame.shape[1]
    drawn,                \* None before the pass, then [box, kept]
    \* one pass of the sampling loop over an event (lines 721-724), taken alone
    seek_seconds,         \* event['suggested_frame_seconds'], in tenths of a millisecond
    seek_fps,             \* cap.get(cv2.CAP_PROP_FPS)
    sought                \* None before the pass, then [frame_time, frame_num]

analyze_vars == <<myfile, attempt, response, response_timestamps, pending, completion>>
extract_vars == <<cap, events, frame_meta, batch_start, all_detections, saved_files, scene_images>>
observed == <<calls, waits, history, polls, observations, written, batch_log, submitted,
              extraction,
              delete_outcome>>
other_vars == <<other_pc, other_written, other_events>>
env_vars == <<api_key, video, max_retries, batch_size, address, timestamp>>
run_vars == <<incident_data, detected_events, result>>
probe_vars == <<det_box_2d, frame_height, frame_width, drawn, seek_seconds, seek_fps, sought>>
vars == <<pc, env_vars, events_file, analyze_vars, run_vars, extract_vars, observed, other_vars,
          probe_vars>>

MediaStates == {"PROCESSING", "ACTIVE", "FAILED"}
MediaName == "files/video-1"

Videos == { [fps |-> 30, frame_count |-> 90, height |-> 1000, width |-> 2000] }

\* events_output.json as an earlier run left it in the working directory
StaleFiles == {None, List(<<model_dump(PersonEvent)>>)}

NoCompletion == [kind |-> "running", value |-> None]
Returned(v) == [kind |-> "return", value |-> v]
Raised(e) == [kind |-> "raise", value |-> e]

\* one run of run_full_ai_analysis about to start
InitRun ==
    /\ pc = "a_client"
    /\ api_key \in BOOLEAN
    /\ video \in Videos
    /\ max_retries = DefaultMaxRetries
    /\ batch_size \in 1..DefaultBatchSize
    /\ \E r \in Requests :
        /\ address = r[1]
        /\ timestamp = r[2]
    /\ events_file \in StaleFiles
    /\ myfile = None
    /\ attempt = 0
    /\ response = None
    /\ response_timestamps = None
    /\ pending = NoCompletion
    /\ completion = NoCompletion
    /\ incident_data = None
    /\ detected_events = None
    /\ result = None
    /\ cap = "unopened"
    /\ events = None
    /\ frame_meta = <<>>
    /\ batch_start = 0
    /\ all_detections = <<>>
    /\ saved_files = {}
    /\ scene_images = <<>>
    /\ submitted = {}
    /\ calls = <<>>
    /\ waits = <<>>
    /\ history = <<>>
    /\ polls = 0
    /\ observations = <<>>
    /\ written = None
    /\ batch_log = <<>>
    /\ extraction = "none"
    /\ delete_outcome = "none"

\* the loop body of lines 856-864 is not being looked at on its own
NoDetectionInHand ==
    /\ det_box_2d = <<0, 0, 0, 0>>
    /\ frame_height = 1
    /\ frame_width = 1
    /\ drawn = None

\* the loop body of lines 721-724 is not being looked at on its own
NoEventInHand ==
    /\ seek_seconds = 0
    /\ seek_fps = 1
    /\ sought = None

\* no second submission is being analysed
Init ==
    /\ InitRun
    /\ other_pc = "absent"
    /\ other_written = None
    /\ other_events = None
    /\ NoDetectionInHand
    /\ NoEventInHand

\* ------------------------------------------------------------------------
\* get_gemini_client (lines 194-213)
\* ------------------------------------------------------------------------
\* the client, were the key not looked at
get_gemini_client_unchecked(key, init_error) ==
    IF init_error = None THEN [ok |-> TRUE, error |-> None]
    ELSE [ok |-> FALSE, error |-> InitError(init_error)]

\* key: os.getenv found a non-empty value; init_error: None, or what
\* genai.Client raised
get_gemini_client(key, init_error) ==
    IF ~key THEN [ok |-> FALSE, error |-> APIKeyError]
    ELSE IF init_error = None THEN [ok |-> TRUE, error |-> None]
    ELSE [ok |-> FALSE, error |-> InitError(init_error)]

\* ------------------------------------------------------------------------
\* analyze_video_with_polling_return_data (lines 332-508)
\* ------------------------------------------------------------------------
\* leave the try block: a return or a raise is pending while finally runs
ToFinally(c) ==
    /\ pending' = c
    /\ pc' = "a_finally"

\* line 338; except APIKeyError returns None (lines 500-502)
analyze_get_client ==
    /\ pc = "a_client"
    /\ \E init_error \in {None} \cup ClientInitErrors :
        LET c == get_gemini_client(api_key, init_error) IN
        IF c.ok THEN /\ pc' = "a_upload"
                     /\ pending' = pending
        ELSE IF c.error.type = "APIKeyError" THEN ToFinally(Returned(None))
        ELSE ToFinally(Raised(c.error))
    /\ UNCHANGED <<env_vars, other_vars, probe_vars, events_file, myfile, attempt, response,
                   response_timestamps, completion, run_vars, extract_vars, observed>>

\* line 342: client.files.upload
analyze_upload ==
    /\ pc = "a_upload"
    /\ calls' = Append(calls, "upload")
    /\ \/ \E s \in MediaStates :
            /\ myfile' = [name |-> MediaName, state |-> s]
            /\ observations' = Append(observations, [slept |-> 0, state |-> s])
            /\ pc' = "a_poll"
            /\ pending' = pending
       \/ /\ UNCHANGED <<myfile, observations>>
          /\ ToFinally(Raised(ConnectionError))
    /\ UNCHANGED <<env_vars, other_vars, probe_vars,
                   events_file, attempt, response, response_timestamps,
                   completion, run_vars, extract_vars, waits, history, polls, submitted,
                   written, batch_log, extraction, delete_outcome>>

\* line 346: the condition of the poll loop
StillProcessingNever(f) == FALSE

StillProcessing(f) == f.state = "PROCESSING"

\* lines 346-350: one sleep-and-repoll cycle
analyze_poll ==
    /\ pc = "a_poll"
    /\ StillProcessing(myfile)
    /\ polls' = polls + 1
    /\ calls' = Append(calls, "get")
    /\ \/ \E s \in MediaStates :
            /\ s = "PROCESSING" => polls + 1 < MaxPolls
            /\ myfile' = [name |-> MediaName, state |-> s]
            /\ observations' = Append(observations, [slept |-> PollInterval, state |-> s])
            /\ pc' = "a_poll"
            /\ pending' = pending
       \/ /\ UNCHANGED <<myfile, observations>>
          /\ ToFinally(Raised(ConnectionError))
    /\ UNCHANGED <<env_vars, other_vars, probe_vars,
                   events_file, attempt, response, response_timestamps,
                   completion, run_vars, extract_vars, waits, history, submitted, written,
                   batch_log, extraction, delete_outcome>>

\* the while condition is false: lines 352-411, into the retry loop
analyze_start_generation ==
    /\ pc = "a_poll"
    /\ ~StillProcessing(myfile)
    /\ attempt' = 0
    /\ response' = None
    /\ response_timestamps' = None
    /\ pc' = "a_incident"
    /\ UNCHANGED <<env_vars, other_vars, probe_vars,
                   events_file, myfile, pending, completion, run_vars,
                   extract_vars, observed>>

\* an except clause of the retry loop acts on error e (lines 438-480)
PrimaryHandle(e) ==
    LET d == PrimaryDecision(e, attempt, PrimaryMaxRetries) IN
    /\ history' = Append(history, e)
    /\ IF d.do = "retry"
       THEN /\ waits' = Append(waits, d.wait)
            /\ attempt' = attempt + 1
            /\ pc' = "a_incident"
            /\ pending' = pending
            /\ extraction' = extraction
       ELSE /\ waits' = waits
            /\ attempt' = attempt
            /\ extraction' = "failed"
            /\ IF d.do = "return_none" THEN ToFinally(Returned(None))
               ELSE ToFinally(Raised(e))

\* lines 416-423: the incident request of one attempt; its arguments are
\* evaluated first, prompt.format among them
analyze_generate_incident ==
    /\ pc = "a_incident"
    /\ IF FormatOutcomes[<<address, timestamp>>] # None
       THEN /\ calls' = calls
            /\ response' = response
            /\ PrimaryHandle(FormatOutcomes[<<address, timestamp>>])
       ELSE /\ calls' = Append(calls, "generate_incident")
            /\ \/ \E t \in {EmptyText, MalformedText, JsonText(Dict(EmptyIncident)),
                           JsonText(Dict(SampleIncident))} :
                    /\ response' = [text |-> t]
                    /\ pc' = "a_timestamps"
                    /\ UNCHANGED <<attempt, pending, waits, history, extraction>>
               \/ \E e \in RemoteErrors :
                    /\ response' = response
                    /\ PrimaryHandle(e)
    /\ UNCHANGED <<env_vars, other_vars, probe_vars,
                   events_file, myfile, response_timestamps, completion,
                   run_vars, extract_vars, polls, observations, submitted, written, batch_log,
                   delete_outcome>>

\* lines 426-436: the timestamps request of the same attempt, then break
analyze_generate_timestamps ==
    /\ pc = "a_timestamps"
    /\ calls' = Append(calls, "generate_timestamps")
    /\ \/ \E p \in ParsedChoices :
            /\ response_timestamps' = [parsed |-> p]
            /\ history' = Append(history, None)
            /\ extraction' = "succeeded"
            /\ pc' = "a_parse"
            /\ UNCHANGED <<attempt, pending, waits>>
       \/ \E e \in RemoteErrors :
            /\ response_timestamps' = response_timestamps
            /\ PrimaryHandle(e)
    /\ UNCHANGED <<env_vars, other_vars, probe_vars,
                   events_file, myfile, response, completion, run_vars,
                   extract_vars, polls, observations, submitted, written, batch_log,
                   delete_outcome>>

\* events_output.json once open(..., "w") has returned: it exists and is empty
Truncated == [py |-> "truncated"]

\* line 491: json.loads(response.text) if response.text else {}
ParseIncident(text) ==
    IF text = EmptyText THEN [ok |-> TRUE, value |-> Dict(EmptyIncident)]
    ELSE JsonLoads(text)

\* line 492 and the list of line 496
EventsToWrite(parsed) ==
    LET evs == IF Falsy(parsed) THEN <<>> ELSE parsed.items
    IN List([i \in DOMAIN evs |-> model_dump(evs[i])])

\* ------------------------------------------------------------------------
\* The text of events_output.json: json.dump(..., ensure_ascii=False, indent=2)
\* of line 496, and what a write through a handle leaves in the file
\* ------------------------------------------------------------------------
\* str(n) of a natural number
RECURSIVE IntChars(_)
IntChars(n) ==
    IF n < 10 THEN <<Chars("0123456789")[n + 1]>>
    ELSE IntChars(n \div 10) \o <<Chars("0123456789")[(n % 10) + 1]>>

\* float.__repr__ of the float nearest n / 10^k (k >= 1, below 10^16): the shortest
\* digits that read back as that float, which are the decimal itself without its
\* trailing zeros, one digit after the point at least
FloatRepr(n, k) ==
    LET whole == n \div (10 ^ k)
        frac == n % (10 ^ k)
        digits == [j \in 1..k |-> (frac \div (10 ^ (k - j))) % 10]
        last == IF frac = 0 THEN 1
                ELSE CHOOSE m \in 1..k : digits[m] # 0 /\ \A j \in (m + 1)..k : digits[j] = 0
    IN IntChars(whole) \o <<".">> \o [j \in 1..last |-> IntChars(digits[j])[1]]

\* json.encoder.encode_basestring from character i on: the quote, the backslash
\* and the control characters escaped, then the closing quote
RECURSIVE JsonStringFrom(_, _)
JsonStringFrom(s, i) ==
    LET c == SubSeq(s, i, i) IN
    IF i > Len(s) THEN <<"\"">>
    ELSE (CASE c = "\"" -> <<"\\", "\"">>
            [] c = "\\" -> <<"\\", "\\">>
            [] c = "\n" -> <<"\\", "n">>
            [] c = "\r" -> <<"\\", "r">>
            [] c = "\t" -> <<"\\", "t">>
            [] c = "\f" -> <<"\\", "f">>
            [] OTHER -> <<c>>) \o JsonStringFrom(s, i + 1)

\* the text json.dump writes for the dicts of a list from position i on: the keys
\* in the order of the fields of TimeStampedEvent (lines 98-106), first_second in
\* milliseconds, confidence in hundredths, suggested_frame_seconds in tenths of a
\* millisecond
RECURSIVE JsonDumpFrom(_, _)
JsonDumpFrom(l, i) ==
    LET ev == l.items[i]
        JsonString(v) == <<"\"">> \o JsonStringFrom(v, 1)
        opt(v) == IF v = None THEN Chars("null") ELSE JsonString(v)
        item(key, text) == Chars("    ") \o JsonString(key) \o Chars(": ") \o text
    IN Chars("  {\n")
       \o item("event_type", JsonString(ev.event_type)) \o Chars(",\n")
       \o item("first_second", FloatRepr(ev.first_second, 3)) \o Chars(",\n")
       \o item("confidence", FloatRepr(ev.confidence, 2)) \o Chars(",\n")
       \o item("description", JsonString(ev.description)) \o Chars(",\n")
       \o item("suggested_frame_seconds", FloatRepr(ev.suggested_frame_seconds, 4))
       \o Chars(",\n")
       \o item("equipment_type", opt(ev.equipment_type)) \o Chars(",\n")
       \o item("safety_violation", opt(ev.safety_violation)) \o Chars(",\n")
       \o item("ppe_missing", opt(ev.ppe_missing))
       \o Chars("\n  }")
       \o (IF i = Len(l.items) THEN <<>> ELSE Chars(",\n") \o JsonDumpFrom(l, i + 1))

\* json.dump(list, f, ensure_ascii=False, indent=2)
JsonDump(l) ==
    IF l.items = <<>> THEN Chars("[]") ELSE Chars("[\n") \o JsonDumpFrom(l, 1) \o Chars("\n]")

\* the text of every list a run can write, computed once
DumpTexts ==
    [ l \in {EventsToWrite(p) : p \in ParsedChoices} \cup (StaleFiles \ {None}) |-> JsonDump(l) ]

\* events_output.json holding the text of the list head over the start of a
\* longer text, that of the file under
Mixed(head, under) == [py |-> "mixed", head |-> head, under |-> under]

\* the characters events_output.json holds
RECURSIVE FileText(_)
FileText(file) ==
    IF file = Truncated THEN <<>>
    ELSE IF file.py = "mixed"
    THEN DumpTexts[file.head]
         \o SubSeq(FileText(file.under), Len(DumpTexts[file.head]) + 1, Len(FileText(file.under)))
    ELSE DumpTexts[file]

\* lines 495-496 at the end of the with block: the handle was opened with "w", so
\* its position is 0 whatever was written to the file since; the text (shorter
\* than the buffer, so written in one piece when the file is closed) replaces
\* the first characters of the file and leaves the rest
WriteDump(file, l) ==
    IF Len(FileText(file)) > Len(DumpTexts[l]) THEN Mixed(l, file) ELSE l

\* json.load on a text that goes on after its first value: JSONDecodeError
\* "Extra data" at the first character after the value that is not whitespace
ExtraDataError(file) ==
    LET text == FileText(file)
        from == Len(DumpTexts[file.head]) + 1
        WS == {" ", "\t", "\n", "\r"}
        first == CHOOSE q \in from..Len(text) :
                    text[q] \notin WS /\ \A r \in from..(q - 1) : text[r] \in WS
        newlines == {q \in 1..(first - 1) : text[q] = "\n"}
        colno == IF newlines = {} THEN first
                 ELSE first - (CHOOSE q \in newlines : \A r \in newlines : r <= q)
    IN [ type |-> "JSONDecodeError",
         msg |-> Chars("Extra data: line ") \o IntChars(Cardinality(newlines) + 1)
                 \o Chars(" column ") \o IntChars(colno)
                 \o Chars(" (char ") \o IntChars(first - 1) \o Chars(")") ]

\* lines 482-495: parse both responses and open events_output.json for writing
analyze_parse ==
    /\ pc = "a_parse"
    /\ IF response = None \/ response_timestamps = None
       THEN /\ ToFinally(Returned(None))
            /\ UNCHANGED events_file
       ELSE IF ~ParseIncident(response.text).ok
            THEN /\ ToFinally(Raised(JSONDecodeError))
                 /\ UNCHANGED events_file
            ELSE /\ events_file' = Truncated
                 /\ pc' = "a_dump"
                 /\ pending' = pending
    /\ UNCHANGED <<env_vars, other_vars, probe_vars,
                   myfile, attempt, response, response_timestamps,
                   completion, run_vars, extract_vars, observed>>

\* lines 496-498: json.dump fills the file, the file is closed, return incident_data
analyze_dump ==
    /\ pc = "a_dump"
    /\ events_file' = WriteDump(events_file, EventsToWrite(response_timestamps.parsed))
    /\ written' = EventsToWrite(response_timestamps.parsed)
    /\ ToFinally(Returned(ParseIncident(response.text).value))
    /\ UNCHANGED <<env_vars, other_vars, probe_vars,
                   myfile, attempt, response, response_timestamps,
                   completion, run_vars, extract_vars, calls, waits, history, polls,
                   observations, batch_log, submitted, extraction, delete_outcome>>

\* line 505: 'myfile' in locals() and myfile.name
ShouldDeleteIfActive(f) == f # None /\ f.state = "ACTIVE"

ShouldDelete(f) == f # None /\ f.name # ""

\* lines 503-508: the finally block, then the function completes
analyze_finally ==
    /\ pc = "a_finally"
    /\ IF ShouldDelete(myfile)
       THEN /\ calls' = Append(calls, "delete")
            /\ \/ /\ delete_outcome' = "ok"
                  /\ completion' = pending
               \/ /\ delete_outcome' = "raised"
                  /\ completion' = Raised([type |-> "ClientError",
                                             msg |-> Chars("403 PERMISSION_DENIED")])
       ELSE /\ calls' = calls
            /\ delete_outcome' = delete_outcome
            /\ completion' = pending
    /\ pc' = "a_done"
    /\ UNCHANGED <<env_vars, other_vars, probe_vars, events_file, myfile, attempt, response,
                   response_timestamps, pending, run_vars, extract_vars, waits, history, polls,
                   observations, submitted, written, batch_log, extraction>>

\* ------------------------------------------------------------------------
\* run_full_ai_analysis (lines 978-1028)
\* ------------------------------------------------------------------------
\* lines 984-1000 and the except clause: what the run does with the analysis outcome
AfterAnalysisNoCheck(c, file) ==
    IF c.kind = "raise" THEN "fail"
    ELSE IF file = None THEN "fail"
    ELSE "extract"

AfterAnalysis(c, file) ==
    IF c.kind = "raise" THEN "fail"
    ELSE IF Falsy(c.value) THEN "fail"
    ELSE IF file = None THEN "fail"
    ELSE "extract"

run_after_analysis ==
    /\ pc = "a_done"
    /\ IF AfterAnalysis(completion, events_file) = "fail"
       THEN /\ result' = Str("")
            /\ incident_data' = IF completion.kind = "return" THEN completion.value ELSE incident_data
            /\ pc' = "done"
       ELSE /\ result' = result
            /\ incident_data' = completion.value
            /\ pc' = "e_load"
    \* the frame of the analysis is gone
    /\ myfile' = None
    /\ attempt' = 0
    /\ response' = None
    /\ response_timestamps' = None
    /\ calls' = <<>>
    /\ waits' = <<>>
    /\ history' = <<>>
    /\ polls' = 0
    /\ observations' = <<>>
    /\ UNCHANGED <<env_vars, other_vars, probe_vars,
                   events_file, pending, completion, detected_events,
                   extract_vars, submitted, written, batch_log, extraction, delete_outcome>>

\* ------------------------------------------------------------------------
\* Frame sampling (lines 717-740)
\* ------------------------------------------------------------------------
\* t / 10000 as a double, for t >= 1: the remainder of t * 2 ** (52 - ex) by
\* 10000, ex being its binary exponent.  The double lies below t / 10000 when
\* the remainder is under 5000 and above it when over; it is t / 10000 when 0.
SecondsRemainder(t) ==
    LET ex == IF t >= 10000 THEN Log2Floor(t \div 10000) ELSE -Doublings(t, 10000)
    IN ((t % 10000) * Pow2Residues[52 - ex]) % 10000

\* round(x, 3) in milliseconds, x being the double nearest to t / 10000 seconds
\* (t >= 0 in tenths of a millisecond).  round works on the exact value of the
\* double: when t ends in 5 that value lies on one side of the midpoint and
\* decides; when the double is the midpoint itself, the even neighbour is taken.
Round3(t) ==
    LET q == t \div 10
        r == t % 10
    IN IF r < 5 THEN q
       ELSE IF r > 5 THEN q + 1
       ELSE IF SecondsRemainder(t) = 0 THEN (IF q % 2 = 0 THEN q ELSE q + 1)
       ELSE IF SecondsRemainder(t) < 5000 THEN q
       ELSE q + 1

\* int(frame_time * fps) for frame_time in ms, the product being one of doubles
FrameNum(frame_time, fps) == DoubleTrunc(frame_time, fps)

\* cap.set(CAP_PROP_POS_FRAMES, n); ret, frame = cap.read()
ReadFrame(v, n) ==
    IF 0 <= n /\ n < v.frame_count
    THEN [ret |-> TRUE, frame |-> [num |-> n, height |-> v.height, width |-> v.width]]
    ELSE [ret |-> FALSE, frame |-> None]

\* the loop, were idx the position among the frames read
RECURSIVE SampleFramesDenseIdx(_, _, _, _)
SampleFramesDenseIdx(evs, v, i, meta) ==
    IF i > Len(evs) THEN meta
    ELSE LET event == evs[i]
             frame_time == Round3(event.suggested_frame_seconds)
             r == ReadFrame(v, FrameNum(frame_time, v.fps))
         IN IF ~r.ret
            THEN SampleFramesDenseIdx(evs, v, i + 1, meta)
            ELSE SampleFramesDenseIdx(evs, v, i + 1,
                     Append(meta, [idx |-> Len(meta), time |-> frame_time,
                                   frame |-> r.frame, event |-> event]))

\* the loop, were an unreadable frame to end it
RECURSIVE SampleFramesUntilUnreadable(_, _, _, _)
SampleFramesUntilUnreadable(evs, v, i, meta) ==
    IF i > Len(evs) THEN meta
    ELSE LET event == evs[i]
             frame_time == Round3(event.suggested_frame_seconds)
             r == ReadFrame(v, FrameNum(frame_time, v.fps))
         IN IF ~r.ret
            THEN meta
            ELSE SampleFramesUntilUnreadable(evs, v, i + 1,
                     Append(meta, [idx |-> i - 1, time |-> frame_time,
                                   frame |-> r.frame, event |-> event]))

\* the loop over enumerate(events): frame_meta after the events from position i on
RECURSIVE SampleFrames(_, _, _, _)
SampleFrames(evs, v, i, meta) ==
    IF i > Len(evs) THEN meta
    ELSE LET event == evs[i]
             frame_time == Round3(event.suggested_frame_seconds)
             r == ReadFrame(v, FrameNum(frame_time, v.fps))
         IN IF ~r.ret
            THEN SampleFrames(evs, v, i + 1, meta)
            ELSE SampleFrames(evs, v, i + 1,
                     Append(meta, [idx |-> i - 1, time |-> frame_time,
                                   frame |-> r.frame, event |-> event]))

\* ------------------------------------------------------------------------
\* Batched detection (lines 775-835)
\* ------------------------------------------------------------------------
PersonDet == [box_2d |-> <<100, 100, 900, 900>>, type |-> "person", confidence |-> 95,
              description |-> "worker without hard hat"]

\* the detections of one group: none, a person, or a fire and a box without height
DetLists ==
    { <<>>,
      <<PersonDet>>,
      << [box_2d |-> <<250, 250, 750, 750>>, type |-> "fire", confidence |-> 88,
          description |-> "flames at the valve"],
         [box_2d |-> <<500, 500, 500, 800>>, type |-> "spill", confidence |-> 40,
          description |-> "thin line"] >> }

Group(i, ds) == [image_index |-> i, detections |-> ds]
NoIndexGroup == [detections |-> <<>>]

\* the detection groups the remote model may return for a batch of n images
WellFormed(n) == { [k \in 1..n |-> Group(k - 1, f[k])] : f \in [1..n -> DetLists] }
Anomalous(n) ==
    { <<>>,
      <<Group(0, <<>>), Group(0, <<PersonDet>>)>>,
      <<Group(n, <<PersonDet>>)>>,
      <<NoIndexGroup>>,
      <<Group(0, <<>>), NoIndexGroup>>,
      <<[image_index |-> 0]>> }
BatchTexts(n) == {MalformedText} \cup {JsonText(List(gs)) : gs \in WellFormed(n) \cup Anomalous(n)}

\* lines 794-798: json.loads, then det_group["image_index"] += batch_start for each group
Reoffset(text, start) ==
    LET loaded == JsonLoads(text) IN
    IF ~loaded.ok THEN [ok |-> FALSE, error |-> JSONDecodeError, groups |-> <<>>]
    ELSE LET gs == loaded.value.items IN
         IF \E k \in DOMAIN gs : "image_index" \notin DOMAIN gs[k]
         THEN [ok |-> FALSE, error |-> KeyError, groups |-> <<>>]
         ELSE [ok |-> TRUE, error |-> None,
               groups |-> [k \in DOMAIN gs |->
                              [gs[k] EXCEPT !.image_index = gs[k].image_index + start]]]

\* the batch given up, were nothing written for it
PlaceholdersNone(start, n) == <<>>

\* lines 818-822: the empty detections written when a batch is given up
Placeholders(start, n) == [i \in 1..n |-> Group(start + i - 1, <<>>)]

\* the except clauses of the batch retry loop (lines 804-835)
BatchDecision(e, a, max) ==
    IF IsClientError(e)
    THEN IF IsOverload(e)
         THEN IF a < max - 1 THEN Retry(Pow2(a) * BatchBase)
              ELSE [do |-> "placeholders", wait |-> 0]
         ELSE Reraise
    ELSE IF a < max - 1 THEN Retry(Pow2(a) * BatchUnexpectedBase) ELSE Reraise

\* ------------------------------------------------------------------------
\* Rendering (lines 837-931)
\* ------------------------------------------------------------------------
Max(a, b) == IF a >= b THEN a ELSE b
Min(a, b) == IF a <= b THEN a ELSE b

\* int(coord / 1000 * dimension): the quotient and the product are doubles, and
\* int truncates toward zero
Scale(coord, dimension) ==
    IF coord >= 0 THEN DoubleTrunc(coord, dimension)
    ELSE -DoubleTrunc(-coord, dimension)

\* the conversion, were the axes exchanged
PixelBoxTransposed(box_2d, height, width) ==
    [ abs_y1 |-> Max(0, Scale(box_2d[1], width)),
      abs_x1 |-> Max(0, Scale(box_2d[2], height)),
      abs_y2 |-> Min(height, Scale(box_2d[3], width)),
      abs_x2 |-> Min(width, Scale(box_2d[4], height)) ]

\* the conversion, were the scaled values used as they come
PixelBoxUnclamped(box_2d, height, width) ==
    [ abs_y1 |-> Scale(box_2d[1], height),
      abs_x1 |-> Scale(box_2d[2], width),
      abs_y2 |-> Scale(box_2d[3], height),
      abs_x2 |-> Scale(box_2d[4], width) ]

\* lines 857-861
PixelBox(box_2d, height, width) ==
    [ abs_y1 |-> Max(0, Scale(box_2d[1], height)),
      abs_x1 |-> Max(0, Scale(box_2d[2], width)),
      abs_y2 |-> Min(height, Scale(box_2d[3], height)),
      abs_x2 |-> Min(width, Scale(box_2d[4], width)) ]

\* the test, were only the width looked at
ValidBoxWidthOnly(b) == b.abs_x2 > b.abs_x1

\* line 864
ValidBox(b) == b.abs_x2 > b.abs_x1 /\ b.abs_y2 > b.abs_y1

\* lines 889-892 and 912-915: the file names, as tuples of their parts
DetectionFilename(frame_info, det, det_idx) ==
    <<"detections", frame_info.idx + 1, frame_info.time, det.type, det_idx + 1, det.confidence>>
SceneFilename(frame_info) == <<"scenes", frame_info.idx + 1, frame_info.time>>

\* line 899, were nothing a person
IsPersonNever(det) == FALSE

\* line 899
IsPerson(det) == det.type = "person"

\* positions (1-based) of the detections of a group that pass the box check
Surviving(dets, frame) ==
    { k \in DOMAIN dets : ValidBox(PixelBox(dets[k].box_2d, frame.height, frame.width)) }

RECURSIVE SelectSeqIdx(_, _, _)
SelectSeqIdx(dets, keep, k) ==
    IF k > Len(dets) THEN <<>>
    ELSE IF k \in keep THEN <<k>> \o SelectSeqIdx(dets, keep, k + 1)
    ELSE SelectSeqIdx(dets, keep, k + 1)

\* lines 849-931: one pass of the loop over all_detections. scene_frame is what
\* lines 878-883 put on the copy of the frame, in order: for each detection that
\* passes the box check, the rectangle (corners, BGR colour by type, thickness 4)
\* and the label (its parts, and the point it is written at). event is the
\* enhanced event of lines 919-929.
RenderGroup(det_group, frame_info) ==
    LET dets == det_group.detections
        frame == frame_info.frame
        keep == SelectSeqIdx(dets, Surviving(dets, frame), 1)
        persons == SelectSeq(keep, LAMBDA k : IsPerson(dets[k]))
        hazards == SelectSeq(keep, LAMBDA k : ~IsPerson(dets[k]))
        original_event == frame_info.event
        color_map == [ person |-> <<0, 255, 0>>,
                       fire |-> <<0, 0, 255>>,
                       spill |-> <<0, 165, 255>>,
                       equipment_damage |-> <<0, 255, 255>>,
                       ppe_violation |-> <<255, 0, 0>>,
                       structural_damage |-> <<128, 0, 128>>,
                       machinery |-> <<255, 255, 0>>,
                       hazard_sign |-> <<255, 255, 255>>,
                       safety_equipment |-> <<0, 255, 0>> ]
        drawing(det, b) ==
            [ pt1 |-> <<b.abs_x1, b.abs_y1>>,
              pt2 |-> <<b.abs_x2, b.abs_y2>>,
              color |-> IF det.type \in DOMAIN color_map THEN color_map[det.type]
                        ELSE <<128, 128, 128>>,
              thickness |-> 4,
              label |-> <<det.type, det.confidence>>,
              org |-> <<b.abs_x1, b.abs_y1 - 10>> ]
    IN [ scene_frame |->
             [j \in DOMAIN keep |->
                 \* b is the pixel box of lines 858-862, computed once
                 CHOOSE d \in { drawing(dets[keep[j]], b) :
                                 b \in {PixelBox(dets[keep[j]].box_2d, frame.height, frame.width)} } : TRUE],
         event |->
           [ event_type |-> original_event.event_type,
             first_second |-> original_event.first_second,
             confidence |-> original_event.confidence,
             description |-> original_event.description,
             suggested_frame_seconds |-> original_event.suggested_frame_seconds,
             detected_hazards |->
                 [j \in DOMAIN hazards |->
                     [type |-> dets[hazards[j]].type,
                      description |-> dets[hazards[j]].description,
                      confidence |-> dets[hazards[j]].confidence]],
             person_attributes |-> [j \in DOMAIN persons |-> dets[persons[j]].description],
             image_path |-> SceneFilename(frame_info),
             detected_elements_paths |->
                 [j \in DOMAIN keep |->
                     DetectionFilename(frame_info, dets[keep[j]], keep[j] - 1)] ] ]

\* the loop over all_detections from position i on: the events built, the files
\* written, the scene image each scene file holds (a later write to the same name
\* replaces the earlier one), and whether a KeyError or IndexError ended it
RECURSIVE RenderAll(_, _, _, _, _, _)
RenderAll(dets, meta, i, out, files, scenes) ==
    IF i > Len(dets)
    THEN [ok |-> TRUE, enhanced_events |-> out, files |-> files, scenes |-> scenes]
    ELSE LET g == dets[i]
             image_index == g.image_index
         IN IF image_index >= Len(meta) THEN RenderAll(dets, meta, i + 1, out, files, scenes)
            ELSE IF image_index < -Len(meta)
            THEN [ok |-> FALSE, enhanced_events |-> out, files |-> files, scenes |-> scenes]
            ELSE LET frame_info == IF image_index >= 0 THEN meta[image_index + 1]
                                   ELSE meta[Len(meta) + image_index + 1]
                 IN IF "detections" \notin DOMAIN g
                    THEN [ok |-> FALSE, enhanced_events |-> out, files |-> files,
                          scenes |-> scenes]
                    ELSE \* r is the group as rendered, computed once
                         CHOOSE rest \in
                             { RenderAll(dets, meta, i + 1, Append(out, r.event),
                                   files \cup {r.event.image_path}
                                         \cup {r.event.detected_elements_paths[j] :
                                                   j \in DOMAIN r.event.detected_elements_paths},
                                   (r.event.image_path :> r.scene_frame) @@ scenes) :
                               r \in {RenderGroup(g, frame_info)} } : TRUE

\* ------------------------------------------------------------------------
\* extract_frames_with_comprehensive_output (lines 691-935) as called by the run
\* ------------------------------------------------------------------------
\* an exception leaves the function: the except clause of the run returns ""
ExtractRaises ==
    /\ result' = Str("")
    /\ pc' = "done"

FileNotFoundError ==
    [ type |-> "FileNotFoundError",
      msg |->
        <<"[", "E", "r", "r", "n", "o", " ", "2", "]", " ", "N", "o", " ", "s", "u",
          "c", "h", " ", "f", "i", "l", "e", " ", "o", "r", " ", "d", "i", "r", "e",
          "c", "t", "o", "r", "y", ":", " ", "'", "e", "v", "e", "n", "t", "s", "_",
          "o", "u", "t", "p", "u", "t", ".", "j", "s", "o", "n", "'">> ]

\* lines 697-698: open(json_file) and json.load(f) on the file as it is now
JsonLoad(file) ==
    IF file = None THEN [ok |-> FALSE, error |-> FileNotFoundError]
    ELSE IF file = Truncated THEN [ok |-> FALSE, error |-> JSONDecodeError]
    ELSE IF file.py = "mixed" THEN [ok |-> FALSE, error |-> ExtraDataError(file)]
    ELSE [ok |-> TRUE, error |-> None]

\* lines 697-740: load the checkpoint, open the video, sample the frames
extract_load_and_sample ==
    /\ pc = "e_load"
    /\ IF ~JsonLoad(events_file).ok
       THEN /\ ExtractRaises
            /\ UNCHANGED <<events, detected_events, cap, frame_meta>>
       ELSE /\ events' = events_file
            /\ IF Falsy(events_file)
               THEN /\ detected_events' = List(<<>>)
                    /\ pc' = "r_assemble"
                    /\ UNCHANGED <<cap, frame_meta, result>>
               ELSE /\ cap' = "open"
                    /\ frame_meta' = SampleFrames(events_file.items, video, 1, <<>>)
                    /\ detected_events' = detected_events
                    /\ pc' = "e_client"
                    /\ result' = result
    /\ UNCHANGED <<env_vars, other_vars, probe_vars,
                   events_file, analyze_vars, incident_data,
                   batch_start, all_detections, saved_files, scene_images, observed>>

\* line 743
extract_get_client ==
    /\ pc = "e_client"
    /\ \E init_error \in {None} \cup ClientInitErrors :
        LET c == get_gemini_client(api_key, init_error) IN
        IF c.ok THEN /\ pc' = "e_batch"
                     /\ result' = result
        ELSE ExtractRaises
    /\ batch_start' = 0
    /\ UNCHANGED <<env_vars, other_vars, probe_vars, events_file, analyze_vars, incident_data,
                   detected_events, cap, events, frame_meta, all_detections, saved_files, scene_images,
                   observed>>

\* line 778: the batch loop takes its next batch, or ends
extract_next_batch ==
    /\ pc = "e_batch"
    /\ IF batch_start < Len(frame_meta)
       THEN /\ attempt' = 0
            /\ waits' = <<>>
            /\ history' = <<>>
            /\ pc' = "e_request"
       ELSE /\ attempt' = 0
            /\ waits' = <<>>
            /\ history' = <<>>
            /\ pc' = "e_render"
    /\ UNCHANGED <<env_vars, other_vars, probe_vars,
                   events_file, myfile, response, response_timestamps,
                   pending, completion, run_vars, extract_vars, calls, polls, observations,
                   submitted, written, batch_log, extraction, delete_outcome>>

\* the loop variable, were it to pass over a batch
BatchDoneSkipsOne ==
    /\ batch_start' = batch_start + 2 * batch_size
    /\ pc' = "e_batch"
    /\ result' = result

\* the batch is over (break): the loop variable moves on
BatchDone ==
    /\ batch_start' = batch_start + batch_size
    /\ pc' = "e_batch"
    /\ result' = result

\* the except clauses, were a failed attempt to leave groups behind
BatchHandleLeavesGroups(e) ==
    LET d == BatchDecision(e, attempt, max_retries)
        n == Min(batch_start + batch_size, Len(frame_meta)) - batch_start
    IN
    /\ history' = Append(history, e)
    /\ IF d.do = "retry"
       THEN /\ waits' = Append(waits, d.wait)
            /\ attempt' = attempt + 1
            /\ all_detections' = all_detections \o Placeholders(batch_start, n)
            /\ UNCHANGED <<pc, batch_start, result, batch_log>>
       ELSE /\ waits' = waits
            /\ attempt' = attempt
            /\ IF d.do = "placeholders"
               THEN /\ all_detections' = all_detections \o Placeholders(batch_start, n)
                    /\ batch_log' = Append(batch_log, "exhausted")
                    /\ BatchDone
               ELSE /\ UNCHANGED <<batch_start, all_detections, batch_log>>
                    /\ ExtractRaises

\* an except clause of the batch retry loop acts on error e
BatchHandle(e) ==
    LET d == BatchDecision(e, attempt, max_retries)
        n == Min(batch_start + batch_size, Len(frame_meta)) - batch_start
    IN
    /\ history' = Append(history, e)
    /\ IF d.do = "retry"
       THEN /\ waits' = Append(waits, d.wait)
            /\ attempt' = attempt + 1
            /\ UNCHANGED <<pc, batch_start, all_detections, result, batch_log>>
       ELSE /\ waits' = waits
            /\ attempt' = attempt
            /\ IF d.do = "placeholders"
               THEN /\ all_detections' = all_detections \o Placeholders(batch_start, n)
                    /\ batch_log' = Append(batch_log, "exhausted")
                    /\ BatchDone
               ELSE /\ UNCHANGED <<batch_start, all_detections, batch_log>>
                    /\ ExtractRaises

\* lines 787-835: one attempt of the request for the current batch
extract_batch_request ==
    /\ pc = "e_request"
    /\ submitted' = submitted \cup {batch_start}
    /\ LET n == Min(batch_start + batch_size, Len(frame_meta)) - batch_start IN
       \/ \E e \in RemoteErrors : BatchHandle(e)
       \/ \E t \in BatchTexts(n) :
            LET r == Reoffset(t, batch_start) IN
            IF r.ok
            THEN /\ all_detections' = all_detections \o r.groups
                 /\ batch_log' = Append(batch_log, IF t.value.items \in WellFormed(n)
                                                    THEN "conforming" ELSE "other")
                 /\ history' = Append(history, None)
                 /\ BatchDone
                 /\ UNCHANGED <<attempt, waits>>
            ELSE BatchHandle(r.error)
    /\ UNCHANGED <<env_vars, other_vars, probe_vars,
                   events_file, myfile, response, response_timestamps,
                   pending, completion, incident_data, detected_events, cap, events,
                   frame_meta, saved_files, scene_images, calls, polls, observations, written, extraction,
                   delete_outcome>>

\* lines 837-935: render every detection group, release the decoder, return
extract_render ==
    /\ pc = "e_render"
    /\ \E r \in {RenderAll(all_detections, frame_meta, 1, <<>>, {}, scene_images)} :
       /\ saved_files' = saved_files \cup r.files
       /\ scene_images' = r.scenes
       /\ IF r.ok
          THEN /\ cap' = "released"
               /\ detected_events' = List(r.enhanced_events)
               /\ pc' = "r_assemble"
               /\ result' = result
          ELSE /\ UNCHANGED <<cap, detected_events>>
               /\ ExtractRaises
    /\ UNCHANGED <<env_vars, other_vars, probe_vars,
                   events_file, analyze_vars, incident_data, events,
                   frame_meta, batch_start, all_detections, observed>>

\* ------------------------------------------------------------------------
\* create_comprehensive_analysis (lines 938-951) and the return of the run
\* ------------------------------------------------------------------------
create_comprehensive_analysis_events_only(data, evs) ==
    IF Falsy(data) THEN Dict(EmptyIncident)
    ELSE Dict([k \in {"detected_events"} |-> evs])

\* the report, were the events left out
create_comprehensive_analysis_incident_only(data, evs) ==
    IF Falsy(data) THEN Dict(EmptyIncident) ELSE data

create_comprehensive_analysis(data, evs) ==
    IF Falsy(data) THEN Dict(EmptyIncident)
    ELSE Dict([k \in DOMAIN data.items \cup {"detected_events"} |->
                  IF k = "detected_events" THEN evs ELSE data.items[k]])

\* lines 1012-1024
run_assemble ==
    /\ pc = "r_assemble"
    /\ result' = create_comprehensive_analysis(incident_data, detected_events)
    /\ pc' = "done"
    /\ UNCHANGED <<env_vars, other_vars, probe_vars, events_file, analyze_vars, incident_data,
                   detected_events, extract_vars, observed>>

Next ==
    \/ analyze_get_client
    \/ analyze_upload
    \/ analyze_poll
    \/ analyze_start_generation
    \/ analyze_generate_incident
    \/ analyze_generate_timestamps
    \/ analyze_parse
    \/ analyze_dump
    \/ analyze_finally
    \/ run_after_analysis
    \/ extract_load_and_sample
    \/ extract_get_client
    \/ extract_next_batch
    \/ extract_batch_request
    \/ extract_render
    \/ run_assemble

Spec == Init /\ [][Next]_vars

\* ------------------------------------------------------------------------
\* Two submissions: process_ai_analysis_background is a plain def queued with
\* background_tasks.add_task (mobile_endpoints.py lines 108-128, 293), so each
\* run_full_ai_analysis runs in its own worker thread of the same process and
\* both use the relative path "events_output.json".  The second run is followed
\* through its two accesses to that file.
\* ------------------------------------------------------------------------
run_all_vars == <<pc, env_vars, analyze_vars, run_vars, extract_vars, observed>>

\* the second run leaves its analysis before line 495 (a failed request, a
\* malformed incident text at line 491): it writes nothing
other_analyze_fails ==
    /\ other_pc = "analyzing"
    /\ other_pc' = "failed"
    /\ UNCHANGED <<run_all_vars, events_file, other_written, other_events, probe_vars>>

\* line 495 in the second run: open(..., "w") truncates events_output.json
other_analyze_parse ==
    /\ other_pc = "analyzing"
    /\ events_file' = Truncated
    /\ other_pc' = "opened"
    /\ UNCHANGED <<run_all_vars, other_written, other_events, probe_vars>>

\* line 496 in the second run: json.dump fills the file
other_analyze_dump ==
    /\ other_pc = "opened"
    /\ \E parsed \in {None, List(<<FireEvent>>)} :
         /\ events_file' = WriteDump(events_file, EventsToWrite(parsed))
         /\ other_written' = EventsToWrite(parsed)
    /\ other_pc' = "written"
    /\ UNCHANGED <<run_all_vars, other_events, probe_vars>>

\* lines 697-698 in the second run: it loads events_output.json, or json.load raises
other_extract_load ==
    /\ other_pc = "written"
    /\ IF JsonLoad(events_file).ok
       THEN /\ other_events' = events_file
            /\ other_pc' = "loaded"
       ELSE /\ other_events' = other_events
            /\ other_pc' = "load_failed"
    /\ UNCHANGED <<run_all_vars, events_file, other_written, probe_vars>>

InitConcurrent ==
    /\ InitRun
    /\ other_pc = "analyzing"
    /\ other_written = None
    /\ other_events = None
    /\ NoDetectionInHand
    /\ NoEventInHand

NextConcurrent ==
    \/ Next
    \/ other_analyze_fails
    \/ other_analyze_parse
    \/ other_analyze_dump
    \/ other_extract_load

SpecConcurrent == InitConcurrent /\ [][NextConcurrent]_vars

\* ------------------------------------------------------------------------
\* The run as scheduled: the pipeline is one sequential call, so whenever a
\* step is possible some step is taken.  Every remote call of the model returns
\* or raises, and the media leaves PROCESSING after MaxPolls polls at the latest.
\* ------------------------------------------------------------------------
SpecLive == Spec /\ WF_vars(Next)

\* ------------------------------------------------------------------------
\* The box conversion on its own: lines 856-864 applied to one detection of a
\* frame of any size, the box being whatever four integers the response held
\* ------------------------------------------------------------------------
BoxCoords == {-100, 0, 1, 500, 999, 1000, 1100}

InitPixelBox ==
    /\ InitRun
    /\ other_pc = "absent"
    /\ other_written = None
    /\ other_events = None
    /\ det_box_2d \in BoxCoords \X BoxCoords \X BoxCoords \X BoxCoords
    /\ \E size \in { <<1, 1>>, <<3, 7>>, <<1000, 2000>> } :
         /\ frame_height = size[1]
         /\ frame_width = size[2]
    /\ drawn = None
    /\ NoEventInHand

\* lines 857-864: the pixel box is computed and tested for area
render_detection ==
    /\ drawn = None
    /\ LET b == PixelBox(det_box_2d, frame_height, frame_width)
       IN drawn' = [box |-> b, kept |-> ValidBox(b)]
    /\ UNCHANGED <<pc, env_vars, events_file, analyze_vars, run_vars, extract_vars, observed,
                   other_vars, det_box_2d, frame_height, frame_width, seek_seconds, seek_fps,
                   sought>>

NextPixelBox == render_detection

SpecPixelBox == InitPixelBox /\ [][NextPixelBox]_vars

\* ------------------------------------------------------------------------
\* The frame index on its own: lines 721-724 applied to one event, its
\* suggested_frame_seconds being any time of the list and the video of either
\* frame rate
\* ------------------------------------------------------------------------

InitFrameIndex ==
    /\ InitRun
    /\ other_pc = "absent"
    /\ other_written = None
    /\ other_events = None
    /\ NoDetectionInHand
    /\ seek_seconds \in {i * 1000 : i \in 0..100} \cup {5, 25, 625, 1875, 15645, 20004, 41004}
    /\ seek_fps \in {25, 30}
    /\ sought = None

\* lines 722-724: the time is rounded, the index computed and the decoder positioned
sample_event ==
    /\ sought = None
    /\ LET frame_time == Round3(seek_seconds)
       IN sought' = [frame_time |-> frame_time, frame_num |-> FrameNum(frame_time, seek_fps)]
    /\ UNCHANGED <<pc, env_vars, events_file, analyze_vars, run_vars, extract_vars, observed,
                   other_vars, det_box_2d, frame_height, frame_width, drawn, seek_seconds,
                   seek_fps>>

NextFrameIndex == sample_event

SpecFrameIndex == InitFrameIndex /\ [][NextFrameIndex]_vars

\* ------------------------------------------------------------------------
\* extract_frames_from_json_with_retry (lines 511-688): the extractor without
\* the report.  Nothing in the repository calls it; it is followed here as a
\* call of its own, with json_file the file events_output.json.  It has no
\* try block of its own around the whole, so what it raises reaches its caller.
\* ------------------------------------------------------------------------

\* json_file as the caller may hand it over, the text two overlapping writers
\* left among them
JsonFiles ==
    {None, Truncated, Mixed(List(<<>>), List(<<model_dump(PersonEvent)>>))}
        \cup {EventsToWrite(p) : p \in ParsedChoices}

\* lines 530-546: the sampling loop; an entry holds idx, time and frame
JsonSampleFrames(evs, v) ==
    LET meta == SampleFrames(evs, v, 1, <<>>)
    IN [k \in DOMAIN meta |->
           [idx |-> meta[k].idx, time |-> meta[k].time, frame |-> meta[k].frame]]

\* lines 673-676: the crop is written into the output folder itself
CropFilename(frame_info, det, det_idx) ==
    <<frame_info.idx + 1, frame_info.time, det.type, det_idx + 1, det.confidence>>

\* lines 643-683: the loop over all_detections from position i on: the crops
\* written, and the error that ended it: the IndexError of frame_meta[image_index]
\* with image_index < -len(frame_meta) (line 648) or the KeyError of
\* det_group["detections"] on a group without the key (line 654)
RECURSIVE CropAll(_, _, _, _)
CropAll(dets, meta, i, files) ==
    IF i > Len(dets) THEN [ok |-> TRUE, error |-> None, files |-> files]
    ELSE LET g == dets[i]
             image_index == g.image_index
         IN IF image_index >= Len(meta) THEN CropAll(dets, meta, i + 1, files)
            ELSE IF image_index < -Len(meta)
            THEN [ok |-> FALSE, files |-> files,
                  error |-> [type |-> "IndexError", msg |-> Chars("list index out of range")]]
            ELSE LET frame_info == IF image_index >= 0 THEN meta[image_index + 1]
                                   ELSE meta[Len(meta) + image_index + 1]
                 IN IF "detections" \notin DOMAIN g
                    THEN [ok |-> FALSE, files |-> files,
                          error |-> [type |-> "KeyError", msg |-> Chars("'detections'")]]
                    ELSE CropAll(dets, meta, i + 1,
                             files \cup {CropFilename(frame_info, g.detections[k], k - 1) :
                                            k \in Surviving(g.detections, frame_info.frame)})

\* the function is left: it returned v or raised e
JsonLeaves(c) ==
    /\ completion' = c
    /\ pc' = "j_done"

InitJsonExtractor ==
    /\ pc = "j_load"
    /\ api_key \in BOOLEAN
    /\ video \in Videos
    /\ max_retries = DefaultMaxRetries
    /\ batch_size \in 1..DefaultBatchSize
    /\ address = <<>>
    /\ timestamp = <<>>
    /\ events_file \in JsonFiles
    /\ myfile = None
    /\ attempt = 0
    /\ response = None
    /\ response_timestamps = None
    /\ pending = NoCompletion
    /\ completion = NoCompletion
    /\ incident_data = None
    /\ detected_events = None
    /\ result = None
    /\ cap = "unopened"
    /\ events = None
    /\ frame_meta = <<>>
    /\ batch_start = 0
    /\ all_detections = <<>>
    /\ saved_files = {}
    /\ scene_images = <<>>
    /\ submitted = {}
    /\ calls = <<>>
    /\ waits = <<>>
    /\ history = <<>>
    /\ polls = 0
    /\ observations = <<>>
    /\ written = None
    /\ batch_log = <<>>
    /\ extraction = "none"
    /\ delete_outcome = "none"
    /\ other_pc = "absent"
    /\ other_written = None
    /\ other_events = None
    /\ NoDetectionInHand
    /\ NoEventInHand

\* lines 516-546: load json_file, open the video, sample the frames
json_load_and_sample ==
    /\ pc = "j_load"
    /\ IF ~JsonLoad(events_file).ok
       THEN /\ JsonLeaves(Raised(JsonLoad(events_file).error))
            /\ UNCHANGED <<events, cap, frame_meta>>
       ELSE /\ events' = events_file
            /\ IF Falsy(events_file)
               THEN /\ JsonLeaves(Returned(None))
                    /\ UNCHANGED <<cap, frame_meta>>
               ELSE /\ cap' = "open"
                    /\ frame_meta' = JsonSampleFrames(events_file.items, video)
                    /\ pc' = "j_client"
                    /\ completion' = completion
    /\ UNCHANGED <<env_vars, other_vars, probe_vars, events_file, myfile, attempt, response,
                   response_timestamps, pending, run_vars, batch_start, all_detections,
                   saved_files, scene_images, observed>>

\* line 549
json_get_client ==
    /\ pc = "j_client"
    /\ \E init_error \in {None} \cup ClientInitErrors :
        LET c == get_gemini_client(api_key, init_error) IN
        IF c.ok THEN /\ pc' = "j_batch"
                     /\ completion' = completion
        ELSE JsonLeaves(Raised(c.error))
    /\ batch_start' = 0
    /\ UNCHANGED <<env_vars, other_vars, probe_vars, events_file, myfile, attempt, response,
                   response_timestamps, pending, run_vars, cap, events, frame_meta,
                   all_detections, saved_files, scene_images, observed>>

\* line 582: the batch loop takes its next batch, or ends
json_next_batch ==
    /\ pc = "j_batch"
    /\ attempt' = 0
    /\ waits' = <<>>
    /\ history' = <<>>
    /\ pc' = IF batch_start < Len(frame_meta) THEN "j_request" ELSE "j_crop"
    /\ UNCHANGED <<env_vars, other_vars, probe_vars, events_file, myfile, response,
                   response_timestamps, pending, completion, run_vars, extract_vars, calls,
                   polls, observations, submitted, written, batch_log, extraction,
                   delete_outcome>>

\* lines 608-639: an except clause of the batch retry loop acts on error e
JsonBatchHandle(e) ==
    LET d == BatchDecision(e, attempt, max_retries)
        n == Min(batch_start + batch_size, Len(frame_meta)) - batch_start
    IN
    /\ history' = Append(history, e)
    /\ IF d.do = "retry"
       THEN /\ waits' = Append(waits, d.wait)
            /\ attempt' = attempt + 1
            /\ UNCHANGED <<pc, batch_start, all_detections, completion, batch_log>>
       ELSE /\ waits' = waits
            /\ attempt' = attempt
            /\ IF d.do = "placeholders"
               THEN /\ all_detections' = all_detections \o Placeholders(batch_start, n)
                    /\ batch_log' = Append(batch_log, "exhausted")
                    /\ batch_start' = batch_start + batch_size
                    /\ pc' = "j_batch"
                    /\ completion' = completion
               ELSE /\ UNCHANGED <<batch_start, all_detections, batch_log>>
                    /\ JsonLeaves(Raised(e))

\* lines 590-639: one attempt of the request for the current batch
json_batch_request ==
    /\ pc = "j_request"
    /\ submitted' = submitted \cup {batch_start}
    /\ LET n == Min(batch_start + batch_size, Len(frame_meta)) - batch_start IN
       \/ \E e \in RemoteErrors : JsonBatchHandle(e)
       \/ \E t \in BatchTexts(n) :
            LET r == Reoffset(t, batch_start) IN
            IF r.ok
            THEN /\ all_detections' = all_detections \o r.groups
                 /\ batch_log' = Append(batch_log, IF t.value.items \in WellFormed(n)
                                                    THEN "conforming" ELSE "other")
                 /\ history' = Append(history, None)
                 /\ batch_start' = batch_start + batch_size
                 /\ pc' = "j_batch"
                 /\ completion' = completion
                 /\ UNCHANGED <<attempt, waits>>
            ELSE JsonBatchHandle(r.error)
    /\ UNCHANGED <<env_vars, other_vars, probe_vars, events_file, myfile, response,
                   response_timestamps, pending, run_vars, cap, events, frame_meta,
                   saved_files, scene_images, calls, polls, observations, written, extraction,
                   delete_outcome>>

\* lines 641-688: crop and save every detection, release the decoder, return
json_crop ==
    /\ pc = "j_crop"
    /\ LET r == CropAll(all_detections, frame_meta, 1, {}) IN
       /\ saved_files' = saved_files \cup r.files
       /\ IF r.ok
          THEN /\ cap' = "released"
               /\ JsonLeaves(Returned(None))
          ELSE /\ cap' = cap
               /\ JsonLeaves(Raised(r.error))
    /\ UNCHANGED <<env_vars, other_vars, probe_vars, events_file, myfile, attempt, response,
                   response_timestamps, pending, run_vars, events, frame_meta, batch_start,
                   all_detections, scene_images, observed>>

NextJsonExtractor ==
    \/ json_load_and_sample
    \/ json_get_client
    \/ json_next_batch
    \/ json_batch_request
    \/ json_crop

SpecJsonExtractor == InitJsonExtractor /\ [][NextJsonExtractor]_vars

\* ------------------------------------------------------------------------
\* Vocabulary of the properties
\* ------------------------------------------------------------------------
IsError(h) == h # None
OverloadError(h) == IsError(h) /\ IsOverload(h)
FatalError(h) == IsError(h) /\ ~IsOverload(h)
AllOverload(h) == \A i \in DOMAIN h : OverloadError(h[i])
Increasing(w) == \A i \in DOMAIN w : i > 1 => w[i] > w[i - 1]
Last(q) == q[Len(q)]
\* the analysis function has completed and its frame is still in view
AnalysisOver == pc = "a_done"
\* the batch retry loop is the retried call in view
InBatchLoop == cap = "open" /\ pc \in {"e_request", "e_batch", "done"}

\* C1: when every attempt of the primary analysis raises an overload error, three
\* attempts are made, two waits occur with the second longer than the first, and
\* the function returns None instead of raising.
C1_ExhaustedReturnsNone ==
    (AnalysisOver /\ history # <<>> /\ AllOverload(history))
        => /\ Len(history) = PrimaryMaxRetries
           /\ Len(waits) = 2
           /\ waits[2] > waits[1]
           /\ completion = Returned(None)

\* C2: when the first k attempts fail with overload errors and attempt k+1 succeeds
\* with a well-formed incident, the function returns that attempt's incident after
\* exactly k increasing waits, and the success is the last attempt.
C2_SuccessAfterOverloads ==
    (/\ AnalysisOver
     /\ history # <<>>
     /\ ~IsError(Last(history))
     /\ AllOverload(SubSeq(history, 1, Len(history) - 1))
     /\ response.text.kind = "json")
        => /\ completion = Returned(response.text.value)
           /\ Len(waits) = Len(history) - 1
           /\ Increasing(waits)
           /\ \A i \in DOMAIN history : ~IsError(history[i]) => i = Len(history)

\* C3: at both retry sites an error matching no overload signature is fatal
\* whatever its type: it ends the retried call on the attempt where it occurs,
\* with no wait and no further attempt.
C3_NonOverloadIsFatal ==
    \A i \in DOMAIN history :
        FatalError(history[i])
            => /\ i = Len(history)
               /\ Len(waits) < i
               /\ pc \in {"a_finally", "a_done", "done"}

\* C4: when all max_retries attempts for a batch fail with overload errors of any
\* type, the frames of the batch get one empty detection group each and no
\* exception leaves the batch loop.
C4_OverloadExhaustionGivesPlaceholders ==
    (InBatchLoop /\ Len(history) = max_retries /\ AllOverload(history))
        => /\ pc = "e_batch"
           /\ result = None
           /\ LET start == batch_start - batch_size
                  n == Min(batch_start, Len(frame_meta)) - start
                  have == Len(all_detections)
              IN /\ have >= n
                 /\ SubSeq(all_detections, have - n + 1, have) = Placeholders(start, n)

\* C5: the list built by the batch loop holds exactly one group per sampled frame,
\* with pairwise distinct image_index values in [0, N).
C5_OneGroupPerFrame ==
    pc = "e_render"
        => /\ Len(all_detections) = Len(frame_meta)
           /\ \A i \in DOMAIN all_detections :
                /\ all_detections[i].image_index \in 0..(Len(frame_meta) - 1)
                /\ \A j \in DOMAIN all_detections :
                     all_detections[i].image_index = all_detections[j].image_index => i = j

\* C6: when the two extraction requests do not succeed within the retry budget, the
\* run returns the empty string and never opens the video, samples a frame, sends a
\* batch request or assembles a report.
C6_FailedExtractionAbortsRun ==
    extraction = "failed"
        => /\ pc \in {"a_finally", "a_done", "done"}
           /\ pc = "done" => result = Str("")
           /\ pc # "done" => result = None
           /\ cap = "unopened"
           /\ events = None
           /\ frame_meta = <<>>
           /\ submitted = {}
           /\ detected_events = None

C6_Witness ==
    /\ pc = "done"
    /\ extraction = "failed"
    /\ pending = Returned(None)
    /\ result = Str("")

\* C7: when the analysis returns a non-empty incident record and wrote an empty
\* candidate-event list, the run returns the incident record's fields plus
\* detected_events = [], and no batch request is sent.
C7_NoEventsStillReports ==
    (/\ pc = "done"
     /\ completion.kind = "return"
     /\ ~Falsy(completion.value)
     /\ events_file = List(<<>>))
        => /\ result.py = "dict"
           /\ DOMAIN result.items = DOMAIN completion.value.items \cup {"detected_events"}
           /\ result.items["detected_events"] = List(<<>>)
           /\ \A k \in DOMAIN completion.value.items :
                result.items[k] = completion.value.items[k]
           /\ submitted = {}
           /\ saved_files = {}
           /\ scene_images = <<>>

C7_Witness ==
    /\ pc = "done"
    /\ completion = Returned(Dict(SampleIncident))
    /\ events = List(<<>>)
    /\ result.py = "dict"

\* C8: once the upload has returned a handle, every completion of the analysis
\* function has attempted the deletion exactly once, as the last call on the handle.
C8_DeletedOnceAndLast ==
    /\ \A i \in DOMAIN calls : calls[i] = "delete" => i = Len(calls)
    /\ (AnalysisOver /\ myfile # None)
           => /\ calls # <<>>
              /\ Last(calls) = "delete"
              /\ delete_outcome # "none"

C8_Witness ==
    /\ AnalysisOver
    /\ myfile # None
    /\ pending = Raised(BadRequestError)
    /\ Last(calls) = "delete"

\* C9: when both extraction requests succeeded and the analysis was about to return
\* a non-empty incident, a deletion that raises does not stop the run: it still
\* goes on to load the events and sample frames.
C9_DeleteFailureIsHarmless ==
    (/\ pc = "done"
     /\ extraction = "succeeded"
     /\ pending.kind = "return"
     /\ ~Falsy(pending.value)
     /\ delete_outcome = "raised")
        => /\ events # None
           /\ result # Str("")

\* C10: when the remote reports the uploaded media FAILED, no generation request
\* is issued against it.
C10_FailedMediaAborts ==
    (myfile # None /\ myfile.state = "FAILED")
        => \A i \in DOMAIN calls : calls[i] \notin {"generate_incident", "generate_timestamps"}

\* the number of times the media state was received as PROCESSING
ProcessingSeen ==
    Cardinality({i \in DOMAIN observations : observations[i].state = "PROCESSING"})
GenerationCalls == {"generate_incident", "generate_timestamps"}
GenerationIssued == \E i \in DOMAIN calls : calls[i] \in GenerationCalls

\* C11: a generation request is issued only when the last media state received is
\* not PROCESSING, and by then exactly as many sleep-and-repoll cycles (a 15-second
\* sleep, then one status fetch) have run as PROCESSING states were received, all
\* of them before the first generation request.
C11_OneCyclePerProcessing ==
    (pc \in {"a_incident", "a_timestamps"} \/ GenerationIssued)
        => /\ Last(observations).state # "PROCESSING"
           /\ polls = ProcessingSeen
           /\ Cardinality({i \in DOMAIN calls : calls[i] = "get"}) = ProcessingSeen
           /\ \A i \in 2..Len(observations) : observations[i].slept = PollInterval
           /\ \A i, j \in DOMAIN calls :
                (calls[i] = "get" /\ calls[j] \in GenerationCalls) => i < j

C11_Witness ==
    /\ pc = "a_timestamps"
    /\ ProcessingSeen = 2
    /\ polls = 2
    /\ myfile.state = "ACTIVE"

\* C12: the candidate events a run loads for frame sampling are the events that
\* run itself wrote, in each of two concurrent runs and under every interleaving.
C12_RunsReadOwnEvents ==
    /\ events # None => events = written
    /\ other_events # None => other_events = other_written

\* C13: once extract_frames_with_comprehensive_output has been left, by a return or
\* by an exception, a decoder it opened has been released.
C13_DecoderReleasedOnExit ==
    pc \in {"r_assemble", "done"} => cap # "open"

\* the frame of a candidate event lies inside the video
InVideo(ev) ==
    LET n == FrameNum(Round3(ev.suggested_frame_seconds), video.fps)
    IN 0 <= n /\ n < video.frame_count
Sampled(i) == {k \in DOMAIN frame_meta : frame_meta[k].idx = i - 1}

\* C14: after sampling, an event whose frame cannot be read has no sampled frame and
\* no error was raised for it, every event whose frame can be read has exactly one,
\* and the sampled frames follow the order of the events.
C14_UnreadableSkippedOthersKept ==
    (cap # "unopened")
        => /\ \A i \in DOMAIN events.items :
                /\ InVideo(events.items[i]) => Cardinality(Sampled(i)) = 1
                /\ ~InVideo(events.items[i]) => Sampled(i) = {}
           /\ \A k \in DOMAIN frame_meta :
                /\ frame_meta[k].idx + 1 \in DOMAIN events.items
                /\ frame_meta[k].event = events.items[frame_meta[k].idx + 1]
           /\ \A k, l \in DOMAIN frame_meta : k < l => frame_meta[k].idx < frame_meta[l].idx
           /\ pc = "e_client" => result = None

C14_Witness ==
    /\ pc = "e_client"
    /\ Len(events.items) = 2
    /\ ~InVideo(events.items[1])
    /\ InVideo(events.items[2])
    /\ Len(frame_meta) = 1
    /\ frame_meta[1].idx = 1

\* C15: the frame sought for an event is the integer part of fps times the event's
\* suggested_frame_seconds rounded to the millisecond; 2.000 s at 30 fps is frame 60.
C15_FrameIndexTruncates ==
    sought # None
        => LET t == seek_seconds
               n == sought.frame_num
           IN /\ 10 * sought.frame_time - 5 <= t /\ t <= 10 * sought.frame_time + 5
              /\ n * 1000 <= sought.frame_time * seek_fps
              /\ sought.frame_time * seek_fps < (n + 1) * 1000
              /\ (t = 20000 /\ seek_fps = 30) => n = 60

\* the rendering loop has run to its end
Rendered == pc = "r_assemble" /\ cap = "released"
\* the detections the renderer visited: <<group position, detection position>>
Visited ==
    {gd \in (DOMAIN all_detections) \X (1..3) :
        /\ all_detections[gd[1]].image_index < Len(frame_meta)
        /\ gd[2] \in DOMAIN all_detections[gd[1]].detections}
FrameInfoOf(gd) == frame_meta[all_detections[gd[1]].image_index + 1]
DetOf(gd) == all_detections[gd[1]].detections[gd[2]]
BoxOf(gd) == PixelBox(DetOf(gd).box_2d, FrameInfoOf(gd).frame.height, FrameInfoOf(gd).frame.width)
CropOf(gd) ==
    <<"detections", FrameInfoOf(gd).idx + 1, FrameInfoOf(gd).time, DetOf(gd).type, gd[2],
      DetOf(gd).confidence>>
ScenarioB(gd) ==
    /\ DetOf(gd).box_2d = <<100, 100, 900, 900>>
    /\ FrameInfoOf(gd).frame.height = 1000
    /\ FrameInfoOf(gd).frame.width = 2000

\* C16 as stated: box_2d = [100, 100, 900, 900] on a frame of height 1000 and width
\* 2000 becomes the pixel box y1 = 200, x1 = 200, y2 = 1800, x2 = 1800, is valid,
\* and its crop is saved.
C16_ScenarioB_AsStated ==
    Rendered =>
        \A gd \in Visited :
            ScenarioB(gd)
                => /\ BoxOf(gd) = [abs_y1 |-> 200, abs_x1 |-> 200, abs_y2 |-> 1800, abs_x2 |-> 1800]
                   /\ BoxOf(gd).abs_x2 > BoxOf(gd).abs_x1
                   /\ BoxOf(gd).abs_y2 > BoxOf(gd).abs_y1
                   /\ CropOf(gd) \in saved_files

\* C16 amended: box_2d = [100, 100, 900, 900] on a frame of height 1000 and width
\* 2000 becomes the pixel box y1 = 100, x1 = 200, y2 = 900, x2 = 1800 (y scaled by
\* the height, x by the width), is valid, and its crop is saved.
C16_ScenarioB ==
    Rendered =>
        \A gd \in Visited :
            ScenarioB(gd)
                => /\ BoxOf(gd) = [abs_y1 |-> 100, abs_x1 |-> 200, abs_y2 |-> 900, abs_x2 |-> 1800]
                   /\ BoxOf(gd).abs_x2 > BoxOf(gd).abs_x1
                   /\ BoxOf(gd).abs_y2 > BoxOf(gd).abs_y1
                   /\ CropOf(gd) \in saved_files

C16_Witness ==
    /\ Rendered
    /\ \E gd \in Visited : ScenarioB(gd) /\ CropOf(gd) \in saved_files

\* the enhanced event built for the group at position g of all_detections
EventOf(g) ==
    detected_events.items[
        Cardinality({j \in 1..g : all_detections[j].image_index < Len(frame_meta)})]
Elements(q) == {q[i] : i \in DOMAIN q}
Degenerate(gd) == BoxOf(gd).abs_x2 <= BoxOf(gd).abs_x1 \/ BoxOf(gd).abs_y2 <= BoxOf(gd).abs_y1
HazardOf(gd) ==
    [type |-> DetOf(gd).type, description |-> DetOf(gd).description,
     confidence |-> DetOf(gd).confidence]

\* the surviving detections of the group at position g
Survivors(g) == {gd \in Visited : gd[1] = g /\ ~Degenerate(gd)}

\* what is drawn on the scene image the file of the event of group g holds
DrawnOn(g) == Elements(scene_images[EventOf(g).image_path])
\* the rectangle, and the label at its place, lines 878-883 would draw for a
\* detection
RectangleOf(gd) ==
    [pt1 |-> <<BoxOf(gd).abs_x1, BoxOf(gd).abs_y1>>, pt2 |-> <<BoxOf(gd).abs_x2, BoxOf(gd).abs_y2>>]
LabelOf(gd) ==
    [label |-> <<DetOf(gd).type, DetOf(gd).confidence>>,
     org |-> <<BoxOf(gd).abs_x1, BoxOf(gd).abs_y1 - 10>>]

\* C17: a detection whose pixel box has no width or no height leaves no crop file,
\* is not drawn on the scene image (neither its rectangle nor its label is on the
\* image the scene file of its event holds, and every rectangle on that image has
\* a width and a height), and appears in none of detected_elements_paths,
\* detected_hazards and person_attributes of its event.
C17_DegenerateBoxLeavesNothing ==
    Rendered =>
        \A gd \in Visited :
            Degenerate(gd)
                => /\ CropOf(gd) \notin saved_files
                   /\ EventOf(gd[1]).image_path \in DOMAIN scene_images
                   /\ \A d \in DrawnOn(gd[1]) :
                        /\ [pt1 |-> d.pt1, pt2 |-> d.pt2] # RectangleOf(gd)
                        /\ [label |-> d.label, org |-> d.org] # LabelOf(gd)
                        /\ d.pt2[1] > d.pt1[1] /\ d.pt2[2] > d.pt1[2]
                   /\ CropOf(gd) \notin Elements(EventOf(gd[1]).detected_elements_paths)
                   /\ HazardOf(gd) \notin Elements(EventOf(gd[1]).detected_hazards)
                   /\ DetOf(gd).description \notin Elements(EventOf(gd[1]).person_attributes)

\* a frame with a flames box and a box of no height: the scene image shows the
\* flames alone, and one crop is saved
C17_Witness ==
    /\ Rendered
    /\ \E gd \in Visited :
         /\ Degenerate(gd)
         /\ Len(EventOf(gd[1]).detected_elements_paths) = 1
         /\ Len(all_detections[gd[1]].detections) = 2
         /\ \E other \in Survivors(gd[1]) :
              DrawnOn(gd[1]) = { [ pt1 |-> RectangleOf(other).pt1,
                                   pt2 |-> RectangleOf(other).pt2,
                                   color |-> <<0, 0, 255>>,
                                   thickness |-> 4,
                                   label |-> LabelOf(other).label,
                                   org |-> LabelOf(other).org ] }

\* C18: every surviving detection of a frame is recorded in exactly one list, in
\* person_attributes exactly when its type is "person" and otherwise in
\* detected_hazards with its type, description and confidence; the two lists
\* together are as long as the list of crops saved for the frame.
C18_PersonOrHazard ==
    Rendered =>
        \A g \in DOMAIN all_detections :
            all_detections[g].image_index < Len(frame_meta)
                => LET e == EventOf(g) IN
                   /\ Len(e.person_attributes) + Len(e.detected_hazards)
                          = Len(e.detected_elements_paths)
                   /\ Len(e.detected_elements_paths) = Cardinality(Survivors(g))
                   /\ Len(e.person_attributes)
                          = Cardinality({gd \in Survivors(g) : DetOf(gd).type = "person"})
                   /\ \A gd \in Survivors(g) :
                        /\ CropOf(gd) \in saved_files
                        /\ IF DetOf(gd).type = "person"
                           THEN /\ DetOf(gd).description \in Elements(e.person_attributes)
                                /\ HazardOf(gd) \notin Elements(e.detected_hazards)
                           ELSE /\ HazardOf(gd) \in Elements(e.detected_hazards)
                                /\ DetOf(gd).description \notin Elements(e.person_attributes)

C18_Witness ==
    /\ Rendered
    /\ Len(detected_events.items) = 2
    /\ Len(detected_events.items[1].person_attributes) = 1
    /\ Len(detected_events.items[1].detected_hazards) = 0
    /\ Len(detected_events.items[2].person_attributes) = 0
    /\ Len(detected_events.items[2].detected_hazards) = 1

\* the run returned a report
Reported == pc = "done" /\ result.py = "dict" /\ "detected_events" \in DOMAIN result.items
\* every successful batch response held one group per image, indexed 0..len-1
AllConforming == \A j \in DOMAIN batch_log : batch_log[j] # "other"
\* positions in frame_meta of the frames of the batch at position j of batch_log
FramesOfBatch(j) ==
    {k \in DOMAIN frame_meta : (j - 1) * batch_size < k /\ k <= j * batch_size}

\* C19: when every successful batch response conforms, the report holds one enhanced
\* event for each candidate event whose frame was read, in order, and none for a
\* skipped event; the frames of a batch that was given up have an event with empty
\* detected_hazards, person_attributes and detected_elements_paths and a scene path.
C19_OneEventPerSampledFrame ==
    (Reported /\ AllConforming /\ events # None)
        => LET des == result.items["detected_events"].items IN
           /\ Len(des) = Cardinality({i \in DOMAIN events.items : InVideo(events.items[i])})
           /\ Len(des) = Len(frame_meta)
           /\ \A k \in DOMAIN des :
                /\ des[k].event_type = frame_meta[k].event.event_type
                /\ des[k].description = frame_meta[k].event.description
                /\ des[k].suggested_frame_seconds = frame_meta[k].event.suggested_frame_seconds
                /\ des[k].image_path = <<"scenes", frame_meta[k].idx + 1, frame_meta[k].time>>
                /\ des[k].image_path \in saved_files
                /\ InVideo(events.items[frame_meta[k].idx + 1])
           /\ \A j \in DOMAIN batch_log :
                batch_log[j] = "exhausted"
                    => \A k \in FramesOfBatch(j) :
                         /\ des[k].detected_hazards = <<>>
                         /\ des[k].person_attributes = <<>>
                         /\ des[k].detected_elements_paths = <<>>

C19_Witness ==
    /\ Reported
    /\ AllConforming
    /\ Len(events.items) = 2
    /\ Len(result.items["detected_events"].items) = 1
    /\ batch_log = <<"exhausted">>

\* C20: a batch response that does not parse, or a group of which lacks a required
\* field, never makes the run return the failure signal.
C20_MalformedResponseDegradesBatch ==
    (/\ InBatchLoop
     /\ history # <<>>
     /\ IsError(Last(history))
     /\ Last(history).type \in {"JSONDecodeError", "KeyError"})
        => result # Str("")

\* C21: when the candidate-event response yields no parsed value, or the incident
\* response is empty, the analysis function does not return a usable incident: it
\* raises or returns a value the run treats as failure.
C21_NoValueFailsExtraction ==
    (/\ AnalysisOver
     /\ response # None
     /\ response_timestamps # None
     /\ (response_timestamps.parsed = None \/ response.text = EmptyText))
        => \/ completion.kind = "raise"
           \/ Falsy(completion.value)

\* C22: with the API key missing, no upload, status fetch, generation, batch or
\* deletion request is ever issued, and the run returns the empty string.
C22_MissingKeyAbortsBeforeNetwork ==
    ~api_key
        => /\ calls = <<>>
           /\ myfile = None
           /\ submitted = {}
           /\ delete_outcome = "none"
           /\ cap = "unopened"
           /\ pc = "done" => result = Str("")

C22_Witness ==
    /\ ~api_key
    /\ pc = "done"
    /\ completion = Returned(None)
    /\ result = Str("")

\* C23: a finished run has returned the empty string or a report dict holding
\* detected_events, whatever failed on the way.
C23_RunReturnsSignalOrReport ==
    pc = "done"
        => \/ result = Str("")
           \/ /\ result.py = "dict"
              /\ "detected_events" \in DOMAIN result.items

C23_Witness ==
    /\ pc = "done"
    /\ cap = "open"
    /\ Len(batch_log) = 1
    /\ result = Str("")

\* the starting offsets of the consecutive slices of the sampled frames
BatchStarts == {b \in 0..Len(frame_meta) : b < Len(frame_meta) /\ b % batch_size = 0}

\* C24: requests are sent only for the consecutive slices of the sampled frames, in
\* order, and the first request for a batch is sent only when every batch before it
\* has finished; when the loop has ended every slice has been submitted.
C24_BatchesInOrderOneAtATime ==
    /\ submitted \subseteq BatchStarts
    /\ \A b \in submitted : b >= batch_size => (b - batch_size) \in submitted
    /\ \A b \in submitted : Len(batch_log) >= b \div batch_size
    /\ Cardinality(submitted) <= Len(batch_log) + 1
    /\ pc = "e_request" => batch_start = Len(batch_log) * batch_size
    /\ pc \in {"e_render", "r_assemble"} /\ cap # "unopened"
          => submitted = BatchStarts /\ Len(batch_log) = Cardinality(BatchStarts)

C24_Witness ==
    /\ pc = "e_request"
    /\ batch_size = 1
    /\ batch_start = 1
    /\ batch_log = <<"exhausted">>
    /\ waits = <<10>>
    /\ submitted = {0, 1}

\* the number of remote calls of one kind the run has made
Sent(kind) == Cardinality({i \in DOMAIN calls : calls[i] = kind})
\* the extraction was given up because retriable failures used up the attempts
\* (the prompt itself formats, so every attempt sends a request)
AttemptsUsedUp ==
    /\ extraction = "failed"
    /\ history # <<>>
    /\ FormatOutcomes[<<address, timestamp>>] = None
    /\ \A k \in DOMAIN history :
         history[k] # None /\ PrimaryDecision(history[k], 0, PrimaryMaxRetries).do = "retry"

\* C25: the two requests are retried independently. Once a candidate-event request
\* has been sent (so the incident request of that attempt succeeded), the incident
\* request is never sent again; and each request has its own 3 attempts, so the
\* extraction is given up for used-up attempts only when the candidate-event
\* request was sent 3 times, or the incident request was sent 3 times and the
\* candidate-event request never.
C25_RequestsRetriedIndependently ==
    /\ \A i, j \in DOMAIN calls :
         (i < j /\ calls[i] = "generate_timestamps") => calls[j] # "generate_incident"
    /\ AttemptsUsedUp
         => \/ Sent("generate_timestamps") = PrimaryMaxRetries
            \/ Sent("generate_incident") = PrimaryMaxRetries /\ Sent("generate_timestamps") = 0

\* C28: within one retried call, at either site, each backoff wait is strictly
\* longer than the wait before it.
C28_EachWaitLonger ==
    \A i \in 2..Len(waits) : waits[i - 1] < waits[i]

\* C27: with conforming responses the group at position g of the accumulated list
\* carries dense index g - 1; its enhanced event copies the candidate event of the
\* frame at that dense index, and the scene and crop names carry that event's
\* original ordinal, also when earlier events were skipped.
C27_DenseIndexOriginalOrdinal ==
    (Rendered /\ AllConforming)
        => \A g \in DOMAIN all_detections :
             LET f == frame_meta[g]
                 own == events.items[f.idx + 1]
                 e == EventOf(g)
             IN /\ all_detections[g].image_index = g - 1
                /\ f.event = own
                /\ e.event_type = own.event_type
                /\ e.first_second = own.first_second
                /\ e.confidence = own.confidence
                /\ e.description = own.description
                /\ e.suggested_frame_seconds = own.suggested_frame_seconds
                /\ e.image_path = <<"scenes", f.idx + 1, f.time>>
                /\ \A k \in DOMAIN e.detected_elements_paths :
                     /\ e.detected_elements_paths[k][1] = "detections"
                     /\ e.detected_elements_paths[k][2] = f.idx + 1
                     /\ e.detected_elements_paths[k][3] = f.time

C27_Witness ==
    /\ Rendered
    /\ AllConforming
    /\ Len(events.items) = 2
    /\ ~InVideo(events.items[1])
    /\ Len(detected_events.items) = 1
    /\ detected_events.items[1].event_type = events.items[2].event_type
    /\ detected_events.items[1].image_path[2] = 2
    /\ Len(detected_events.items[1].detected_elements_paths) = 1
    /\ detected_events.items[1].detected_elements_paths[1][2] = 2

\* C30: the accumulated list changes only in the step that ends a batch; a batch
\* given up adds exactly its empty placeholder groups, a successful attempt ends
\* the batch with its groups, and a failed attempt that does not end the batch
\* leaves the list as it was.
C30_BatchContributesOnce ==
    [][ LET n == Min(batch_start + batch_size, Len(frame_meta)) - batch_start
            ended == Len(batch_log') = Len(batch_log) + 1
            attempted == Len(history') = Len(history) + 1
        IN /\ all_detections' # all_detections
                => /\ ended
                   /\ pc' = "e_batch"
                   /\ batch_start' = batch_start + batch_size
           /\ (ended /\ Last(batch_log') = "exhausted")
                => all_detections' = all_detections \o
                       [i \in 1..n |-> [image_index |-> batch_start + i - 1,
                                        detections |-> <<>>]]
           /\ (attempted /\ IsError(Last(history')) /\ ~ended)
                => all_detections' = all_detections
           /\ (pc = "e_request" /\ attempted /\ ~IsError(Last(history')))
                => /\ ended
                   /\ Last(batch_log') # "exhausted"
                   /\ pc' = "e_batch"
      ]_vars

C30_Witness ==
    /\ pc = "e_batch"
    /\ Len(history) = 2
    /\ IsError(history[1])
    /\ ~IsError(history[2])
    /\ batch_log = <<"conforming">>
    /\ Len(frame_meta) = 2
    /\ Len(all_detections) = 2

\* C29: whatever the frame size and whatever four integers the box holds, a
\* detection that passes the area test has a pixel box inside the frame with
\* positive width and height: 0 <= x1 < x2 <= width and 0 <= y1 < y2 <= height.
C29_SurvivorInsideFrame ==
    (drawn # None /\ drawn.kept)
        => /\ 0 <= drawn.box.abs_x1
           /\ drawn.box.abs_x1 < drawn.box.abs_x2
           /\ drawn.box.abs_x2 <= frame_width
           /\ 0 <= drawn.box.abs_y1
           /\ drawn.box.abs_y1 < drawn.box.abs_y2
           /\ drawn.box.abs_y2 <= frame_height

C29_Witness ==
    /\ drawn # None
    /\ drawn.kept
    /\ det_box_2d[1] < 0
    /\ det_box_2d[4] > BoxScale
    /\ frame_height > 1

CeilDiv(a, b) == (a + b - 1) \div b

LoopsBounded ==
    /\ pc \in {"a_incident", "a_timestamps"} => attempt < PrimaryMaxRetries
    /\ pc = "e_request" => attempt < max_retries /\ Len(history) < max_retries
    /\ Len(batch_log) <= CeilDiv(Len(frame_meta), batch_size)
    /\ Cardinality(submitted) <= CeilDiv(Len(frame_meta), batch_size)

Terminated ==
    /\ pc = "done"
    /\ \/ result = Str("")
       \/ /\ result.py = "dict"
          /\ "detected_events" \in DOMAIN result.items

\* C26: with every remote call returning or raising and the media leaving the
\* processing state, every run ends with a report or the failure signal; on the
\* way each retry loop makes at most max_retries attempts and the batch loop
\* at most ceil(N / batch_size) iterations.
C26_RunTerminates == []LoopsBounded /\ <>Terminated

C26_Witness ==
    /\ pc = "done"
    /\ result # Str("")
    /\ Len(frame_meta) = 2
    /\ batch_size = 1
    /\ Len(batch_log) = 2
    /\ "exhausted" \in Elements(batch_log)
====
